---- MODULE Spec2Model ----
(***************************************************************************)
(* Verification model of freecad-automation: the drawing QA scorer, the    *)
(* SVG post-processor (repair engine), the `fcad draw` orchestrator and    *)
(* the WebSocket drawing server.                                           *)
(***************************************************************************)
EXTENDS Integers, Sequences, FiniteSets, TLC

VARIABLES
    qmetrics,   \* QA scorer: the plan-independent metrics measured on the SVG
    qdoc,       \* QA scorer: what the SVG shows of the plan's intents
    qplan,      \* QA scorer: the plan given with --plan, or NoPlan
    qresult,    \* QA scorer: the report {score, metrics, deductions}, or NoResult
    tdoc,       \* rule tier: the document the mandatory tier is applied to
    tonce,      \* rule tier: the document after the first application
    tpasses,    \* rule tier: how many times the tier has been applied
    ppFiles,    \* postprocess: the SVG files on disk, by path
    ppOrig,     \* postprocess: the files as they were when the run started
    ppArgs,     \* postprocess: input_path, output_path, dry_run, plan
    ppOrder,    \* postprocess: the passes of this run, in pipeline order
    ppPc,       \* postprocess: position in postprocess()
    ppTree,     \* postprocess: the parsed tree held in memory
    ppRunning,  \* postprocess: the rule being executed, 0 between rules
    ppStarted,  \* postprocess: the rules begun so far, in order
    ppFinished, \* postprocess: the rules that returned or raised, in order
    ppThrown,   \* postprocess: the rules that raised
    ppReport,   \* postprocess: the --report entries, in order
    rawArgs,    \* fcad draw: the command line after "draw"
    drawPc,     \* fcad draw: position in cmdDraw
    runLog,     \* fcad draw: the run log {status, stages}
    hasPlan,    \* fcad draw: whether config.drawing_plan is set
    svgCount,   \* fcad draw: number of SVG files generate_drawing returned
    svgIdx,     \* fcad draw: the SVG the loop is at
    qaBefore,   \* fcad draw: the parsed qa_before report, or NA (null)
    reports,    \* fcad draw: the repair report file of each SVG
    scored,     \* fcad draw: the scores the scorer computed for each SVG
    exitCode,   \* fcad draw: exit status of the process, Running until it ends
    runLogFile, \* fcad draw: the run log file on disk, or NA
    building,   \* server: ws._building of each connection
    lastPlanPath, \* server: ws._lastPlanPath of each connection, "" for null
    planFiles,  \* server: the plan files under output/, by path
    bakFiles,   \* server: the .bak copies of the plan files, by path
    drawTask,   \* server: the handleDraw call in flight on each connection
    updTask,    \* server: the handleUpdateDimension call in flight
    lastMsg,    \* server: type of the last message sent to each connection
    lastWrite,  \* server: the last write to a plan file (history)
    requests,   \* server: number of client messages handled so far
    icConfig,   \* intent compiler: the config read from stdin
    icPc,       \* intent compiler: position in main()
    icPartType, \* intent compiler: the resolved part_type
    icPlan,     \* intent compiler: the drawing_plan in hand
    icResult,   \* plan validator: the result of validate_plan
    ruRule,     \* single rule: the rule that is applied
    ruPlan,     \* single rule: the plan it is given
    ruTrees,    \* single rule: the document, and the document after each application
    ruCounts,   \* single rule: the count each application returned
    rnOpts,     \* runScript: opts.timeout in ms, or NA
    rnNow,      \* runScript: ms since the call
    rnProc,     \* runScript: the child process
    rnTimer,    \* runScript: the timeout timer
    rnHard,     \* runScript: hardKillTimer
    rnTimeoutError,\* runScript: whether timeoutError is set
    rnKills,    \* runScript: the proc.kill calls made, with their time
    rnPromise,  \* runScript: the promise returned
    vwHistory,  \* viewer: dimEditHistory, the undo/redo entries
    vwIndex,    \* viewer: dimEditIndex, position in the history (-1 is before the first)
    vwOutbox,   \* update_dimension messages sent by the viewer, not yet handled
    vwInbox,    \* server messages on their way to the viewer
    vwPlanValue,\* value_mm of the dimension in the plan file
    vwShown,    \* value the drawing on screen shows for the dimension
    vwEditor,   \* editor.value, the configuration text in the viewer
    vwRecent,   \* the last few things the user saw or did
    vwKeys,     \* number of undo and redo key presses so far
    dsPc,       \* design: where designFromText and its caller stand
    dsToml,     \* design: toml, the block extracted from the latest response
    dsResult,   \* design: what designFromText returned
    dsOutcome,  \* design: what the caller did with the result
    dmBase,     \* deepMerge: the base object as passed
    dmOverride, \* deepMerge: the override object
    dmResult,   \* deepMerge: the base object after the call, and whether the call threw
    buildTask,  \* server: the handleBuild call in flight on each connection
    lastDraw,   \* server: how the latest handleDraw call on each connection went (history)
    lastReq,    \* server: the latest client message (history)
    pipelineLog, \* server: per connection, the terminal messages of the handler that took the pipeline (history)
    rejectLog   \* server: the terminal messages of the latest handler that returned at once (history)

qaVars == <<qmetrics, qdoc, qplan, qresult>>

tierVars == <<tdoc, tonce, tpasses>>

ppVars == <<ppFiles, ppOrig, ppArgs, ppOrder, ppPc, ppTree, ppRunning,
            ppStarted, ppFinished, ppThrown, ppReport>>

drawVars == <<rawArgs, drawPc, runLog, hasPlan, svgCount, svgIdx, qaBefore,
              reports, scored, exitCode, runLogFile>>

vars == <<qmetrics, qdoc, qplan, qresult, tdoc, tonce, tpasses,
          ppFiles, ppOrig, ppArgs, ppOrder, ppPc, ppTree, ppRunning,
          ppStarted, ppFinished, ppThrown, ppReport,
          rawArgs, drawPc, runLog, hasPlan, svgCount, svgIdx, qaBefore,
          reports, scored, exitCode, runLogFile,
          building, lastPlanPath, planFiles, bakFiles, drawTask, updTask,
          lastMsg, lastWrite, requests,
          icConfig, icPc, icPartType, icPlan, icResult,
          ruRule, ruPlan, ruTrees, ruCounts,
          rnOpts, rnNow, rnProc, rnTimer, rnHard, rnTimeoutError, rnKills, rnPromise,
          vwHistory, vwIndex, vwOutbox, vwInbox, vwPlanValue, vwShown, vwEditor, vwRecent, vwKeys,
          dsPc, dsToml, dsResult, dsOutcome,
          dmBase, dmOverride, dmResult,
          buildTask, lastDraw, lastReq, pipelineLog, rejectLog>>

srvVars == <<building, lastPlanPath, planFiles, bakFiles, drawTask, updTask,
             lastMsg, lastWrite, requests>>

icVars == <<icConfig, icPc, icPartType, icPlan, icResult>>

ruVars == <<ruRule, ruPlan, ruTrees, ruCounts>>

rnVars == <<rnOpts, rnNow, rnProc, rnTimer, rnHard, rnTimeoutError, rnKills, rnPromise>>

vwVars == <<vwHistory, vwIndex, vwOutbox, vwInbox, vwPlanValue, vwShown, vwEditor, vwRecent, vwKeys>>

dsVars == <<dsPc, dsToml, dsResult, dsOutcome>>

dmVars == <<dmBase, dmOverride, dmResult>>

sxVars == <<buildTask, lastDraw, lastReq, pipelineLog, rejectLog>>

\* What each component leaves alone
notQa == <<tierVars, ppVars, drawVars, srvVars, icVars, ruVars, rnVars, vwVars, dsVars, dmVars, sxVars>>

notTier == <<qaVars, ppVars, drawVars, srvVars, icVars, ruVars, rnVars, vwVars, dsVars, dmVars, sxVars>>

notPp == <<qaVars, tierVars, drawVars, srvVars, icVars, ruVars, rnVars, vwVars, dsVars, dmVars, sxVars>>

notDraw == <<qaVars, tierVars, ppVars, srvVars, icVars, ruVars, rnVars, vwVars, dsVars, dmVars, sxVars>>

notSrv == <<qaVars, tierVars, ppVars, drawVars, icVars, ruVars, rnVars, vwVars, dsVars, dmVars, sxVars>>

\* What a server step that records its history leaves alone
notServer == <<qaVars, tierVars, ppVars, drawVars, icVars, ruVars, rnVars, vwVars, dsVars, dmVars>>

notIc == <<qaVars, tierVars, ppVars, drawVars, srvVars, ruVars, rnVars, vwVars, dsVars, dmVars, sxVars>>

notRu == <<qaVars, tierVars, ppVars, drawVars, srvVars, icVars, rnVars, vwVars, dsVars, dmVars, sxVars>>

notRn == <<qaVars, tierVars, ppVars, drawVars, srvVars, icVars, ruVars, vwVars, dsVars, dmVars, sxVars>>

notVw == <<qaVars, tierVars, ppVars, drawVars, srvVars, icVars, ruVars, rnVars, dsVars, dmVars, sxVars>>

notDs == <<qaVars, tierVars, ppVars, drawVars, srvVars, icVars, ruVars, rnVars, vwVars, dmVars, sxVars>>

notDm == <<qaVars, tierVars, ppVars, drawVars, srvVars, icVars, ruVars, rnVars, vwVars, dsVars, sxVars>>


--------------------------------------------------------------------------
(* Shared helpers *)

Min(a, b) == IF a < b THEN a ELSE b

Max(a, b) == IF a > b THEN a ELSE b

--------------------------------------------------------------------------
(***************************************************************************)
(* Quality scorer (qa_scorer.py as designed in the implementation plans)   *)
(***************************************************************************)

\* Bounds of the checked inputs
MaxCount == 1

MaxOverflow == 10

MaxConv == 4

FloatCounts == {0, 9, 10, 49, 50, 60}

IntentIds == {"PCD", "BOLT_COUNT", "BOLT_DIA"}

\* No --plan argument (Python's plan = None)
NoPlan == [given |-> FALSE, intents |-> {}, required |-> {}]

\* Python's None and a present value
NA == <<>>

Some(v) == <<v>>

\* Per-metric deduction table
W_ISO_HIDDEN == 5

W_OVERFLOW == 10

W_TEXT_OVERLAP == 2

W_DIM_OVERLAP == 2

W_NOTES_OVERFLOW == 15

W_GDT_UNANCHORED == 3

W_DENSE_ISO == 5

W_STROKE == 1

FLOAT_STEP == 10

FLOAT_CAP == 5

W_DIM_COMPLETENESS == 5

W_DIM_REDUNDANCY == 2

W_DATUM == 3

W_VIEW_COVERAGE == 5

NOTE_CONV_CAP == 3

W_VIRTUAL == 5

W_NOTE_SEMANTIC == 3

FULL_SCORE == 100

\* The sum of the nine plan-independent deductions of compute_score
BaseDeduction(m) ==
      m.iso_hidden_count * W_ISO_HIDDEN
    + m.overflow_count * W_OVERFLOW
    + m.text_overlap_pairs * W_TEXT_OVERLAP
    + m.dim_overlap_pairs * W_DIM_OVERLAP
    + (IF m.notes_overflow THEN W_NOTES_OVERFLOW ELSE 0)
    + m.gdt_unanchored * W_GDT_UNANCHORED
    + (IF m.dense_iso THEN W_DENSE_ISO ELSE 0)
    + m.stroke_violations * W_STROKE
    + Min(m.float_precision_count \div FLOAT_STEP, FLOAT_CAP)

\* Phase 19 metrics that are measured on the SVG alone (plan needed: No)
LayoutDeduction(m) ==
      m.dim_redundancy * W_DIM_REDUNDANCY
    + (IF m.datum_incoherent THEN W_DATUM ELSE 0)
    + Min(m.note_convention, NOTE_CONV_CAP)

\* check_dim_completeness: required intents with no matching text; 0 without a plan
check_dim_completeness(doc, plan) ==
    IF ~plan.given THEN 0
    ELSE Cardinality({i \in plan.required : doc.texts[i] = "absent"})

\* check_view_coverage: a required intent whose view shows no such dimension;
\* 0 (FALSE) without a plan
check_view_coverage(doc, plan) ==
    IF ~plan.given THEN FALSE
    ELSE \E i \in plan.required : doc.texts[i] # "ok"

\* The plan guard dropped: the virtual-pcd group is looked for whatever the plan
virtual_geometry_present_unguarded(doc, plan) == Some(doc.virtual_pcd)

\* virtual_geometry_present: evaluated only when the plan requires the PCD intent
virtual_geometry_present(doc, plan) ==
    IF ~plan.given THEN NA
    ELSE IF "PCD" \notin plan.required THEN NA
    ELSE Some(doc.virtual_pcd)

\* note_semantic_consistency: bolt-count note against BOLT_COUNT / BOLT_DIA
note_semantic_consistency(doc, plan) ==
    IF ~plan.given THEN NA
    ELSE IF ~({"BOLT_COUNT", "BOLT_DIA"} \subseteq plan.intents) THEN NA
    ELSE Some(IF doc.note = "mismatch" THEN 1 ELSE 0)

IntentMetrics(doc, plan) ==
    [dim_completeness |-> check_dim_completeness(doc, plan),
     view_coverage |-> check_view_coverage(doc, plan),
     virtual_geometry_present |-> virtual_geometry_present(doc, plan),
     note_semantic_consistency |-> note_semantic_consistency(doc, plan)]

IntentDeductions(im) ==
    [dim_completeness |-> im.dim_completeness * W_DIM_COMPLETENESS,
     view_coverage |-> IF im.view_coverage THEN W_VIEW_COVERAGE ELSE 0,
     virtual_geometry_present |->
        IF im.virtual_geometry_present = Some(FALSE) THEN W_VIRTUAL ELSE 0,
     note_semantic_consistency |->
        IF im.note_semantic_consistency = NA THEN 0
        ELSE im.note_semantic_consistency[1] * W_NOTE_SEMANTIC]

IntentDeduction(im) ==
    LET d == IntentDeductions(im)
    IN  d.dim_completeness + d.view_coverage + d.virtual_geometry_present
        + d.note_semantic_consistency

\* The clamp dropped: what compute_score returns if max(score, 0) is forgotten
Clamp_unclamped(score) == score

\* return max(score, 0)
Clamp(score) == Max(score, 0)

\* compute_score: 100 minus every deduction, clamped at 0
compute_score(m, im) ==
    Clamp(FULL_SCORE - BaseDeduction(m) - LayoutDeduction(m) - IntentDeduction(im))

\* The whole scorer run on (SVG, optional plan)
qa_score(m, doc, plan) ==
    LET im == IntentMetrics(doc, plan)
    IN  [done |-> TRUE,
         score |-> compute_score(m, im),
         intent |-> im,
         deductions |-> IntentDeductions(im)]

ZeroMetrics ==
    [iso_hidden_count |-> 0, overflow_count |-> 0, text_overlap_pairs |-> 0,
     dim_overlap_pairs |-> 0, notes_overflow |-> FALSE, gdt_unanchored |-> 0,
     dense_iso |-> FALSE, stroke_violations |-> 0, float_precision_count |-> 0,
     dim_redundancy |-> 0, datum_incoherent |-> FALSE, note_convention |-> 0]

\* Inputs that vary the nine original metrics
BaseMetricInputs ==
    { [ZeroMetrics EXCEPT !.iso_hidden_count = a[1], !.text_overlap_pairs = a[2],
                          !.dim_overlap_pairs = a[3], !.gdt_unanchored = a[4],
                          !.stroke_violations = a[5], !.overflow_count = o,
                          !.notes_overflow = b[1], !.dense_iso = b[2],
                          !.float_precision_count = f]
        : a \in [1..5 -> 0..MaxCount], o \in 0..MaxOverflow,
          b \in [1..2 -> BOOLEAN], f \in FloatCounts }

\* Inputs that vary the Phase 19 layout metrics, with few or many overflows
LayoutMetricInputs ==
    { [ZeroMetrics EXCEPT !.overflow_count = o, !.dim_redundancy = r,
                          !.datum_incoherent = d, !.note_convention = c]
        : o \in {0, MaxOverflow}, r \in 0..MaxCount, d \in BOOLEAN,
          c \in 0..MaxConv }

QaDocs ==
    [texts : [IntentIds -> {"absent", "wrong_view", "ok"}],
     virtual_pcd : BOOLEAN,
     note : {"none", "match", "mismatch"}]

NeutralDoc ==
    [texts |-> [i \in IntentIds |-> "ok"], virtual_pcd |-> FALSE, note |-> "none"]

QaPlans ==
    {NoPlan} \cup
    { p \in [given : {TRUE}, intents : SUBSET IntentIds, required : SUBSET IntentIds] :
        p.required \subseteq p.intents }

FullPlan == [given |-> TRUE, intents |-> IntentIds, required |-> IntentIds]

\* No report written yet
NoResult ==
    [done |-> FALSE, score |-> 0, intent |-> IntentMetrics(NeutralDoc, NoPlan),
     deductions |-> IntentDeductions(IntentMetrics(NeutralDoc, NoPlan))]

QaInit ==
    /\ \/ /\ qmetrics \in BaseMetricInputs
          /\ qdoc = NeutralDoc
          /\ qplan \in {NoPlan, FullPlan}
       \/ /\ qmetrics \in LayoutMetricInputs
          /\ qdoc \in QaDocs
          /\ qplan \in QaPlans
    /\ qresult = NoResult

\* python3 qa_scorer.py <svg> [--plan <plan>]
QaScore ==
    /\ ~qresult.done
    /\ qresult' = qa_score(qmetrics, qdoc, qplan)
    /\ UNCHANGED <<qmetrics, qdoc, qplan>>
    /\ UNCHANGED notQa

\* The same SVG scored again with --no-plan
QaRescoreNoPlan ==
    /\ qresult.done
    /\ qplan.given
    /\ qplan' = NoPlan
    /\ qresult' = NoResult
    /\ UNCHANGED <<qmetrics, qdoc>>
    /\ UNCHANGED notQa

QaIdle ==
    /\ qmetrics = ZeroMetrics
    /\ qdoc = NeutralDoc
    /\ qplan = NoPlan
    /\ qresult = NoResult

--------------------------------------------------------------------------
(***************************************************************************)
(* Document model (svg_common.py).  Lengths are in thousandths of a        *)
(* millimetre, so that a value with three decimals is an integer.          *)
(***************************************************************************)

MM == 1000

\* CELLS: the four view cells of the A3 sheet
CELLS ==
    [top   |-> [x |-> 15 * MM,  y |-> 15 * MM,  w |-> 195 * MM, h |-> 116 * MM],
     iso   |-> [x |-> 210 * MM, y |-> 15 * MM,  w |-> 195 * MM, h |-> 116 * MM],
     front |-> [x |-> 15 * MM,  y |-> 131 * MM, w |-> 195 * MM, h |-> 116 * MM],
     right |-> [x |-> 210 * MM, y |-> 131 * MM, w |-> 195 * MM, h |-> 116 * MM]]

\* BBox.contains
Contains(b, px, py) ==
    /\ b.x <= px /\ px <= b.x + b.w
    /\ b.y <= py /\ py <= b.y + b.h

cell_bbox(view_name) == CELLS[view_name]

HiddenClasses == {"outer_hidden", "hard_hidden", "smooth_hidden", "iso_hidden"}

AttrNames == {"stroke-width", "stroke", "stroke-dasharray", "vector-effect"}

NoAttrs == [a \in AttrNames |-> ""]

\* A group's class without its per-view suffix: dimensions-front matches dimensions-*
ProfileKey(class) ==
    IF class \in {"dimensions-front", "dimensions-top", "dimensions-right"}
    THEN "dimensions-*" ELSE class

\* STROKE_PROFILE_KS
STROKE_PROFILE_KS ==
    [hard_visible   |-> [a \in {"stroke-width", "stroke"} |->
                            IF a = "stroke-width" THEN "0.7" ELSE "#000"],
     outer_visible  |-> [a \in {"stroke-width", "stroke"} |->
                            IF a = "stroke-width" THEN "0.50" ELSE "#000"],
     smooth_visible |-> [a \in {"stroke-width", "stroke"} |->
                            IF a = "stroke-width" THEN "0.35" ELSE "#000"],
     outer_hidden   |-> [a \in {"stroke-width", "stroke", "stroke-dasharray"} |->
                            IF a = "stroke-width" THEN "0.20"
                            ELSE IF a = "stroke" THEN "#333" ELSE "3,1.5"],
     hard_hidden    |-> [a \in {"stroke-width", "stroke", "stroke-dasharray"} |->
                            IF a = "stroke-width" THEN "0.20"
                            ELSE IF a = "stroke" THEN "#333" ELSE "3,1.5"],
     smooth_hidden  |-> [a \in {"stroke-width", "stroke", "stroke-dasharray"} |->
                            IF a = "stroke-width" THEN "0.20"
                            ELSE IF a = "stroke" THEN "#444" ELSE "3,1.5"],
     centerlines    |-> [a \in {"stroke-width", "stroke-dasharray", "vector-effect"} |->
                            IF a = "stroke-width" THEN "0.18"
                            ELSE IF a = "stroke-dasharray" THEN "8,2,1.5,2"
                            ELSE "non-scaling-stroke"],
     symmetry_axes  |-> [a \in {"stroke-width", "stroke-dasharray", "vector-effect"} |->
                            IF a = "stroke-width" THEN "0.13"
                            ELSE IF a = "stroke-dasharray" THEN "8,2,1.5,2"
                            ELSE "non-scaling-stroke"],
     gdt_leader     |-> [a \in {"stroke-width"} |-> "0.25"],
     dimensions     |-> [a \in {"stroke-width", "vector-effect"} |->
                            IF a = "stroke-width" THEN "0.18" ELSE "non-scaling-stroke"]]

\* The profile entry of a class key, or the empty mapping when it has none
ProfileOf(key) ==
    CASE key = "hard_visible"   -> STROKE_PROFILE_KS.hard_visible
      [] key = "outer_visible"  -> STROKE_PROFILE_KS.outer_visible
      [] key = "smooth_visible" -> STROKE_PROFILE_KS.smooth_visible
      [] key = "outer_hidden"   -> STROKE_PROFILE_KS.outer_hidden
      [] key = "hard_hidden"    -> STROKE_PROFILE_KS.hard_hidden
      [] key = "smooth_hidden"  -> STROKE_PROFILE_KS.smooth_hidden
      [] key = "centerlines"    -> STROKE_PROFILE_KS.centerlines
      [] key = "symmetry-axes"  -> STROKE_PROFILE_KS.symmetry_axes
      [] key = "gdt-leader"     -> STROKE_PROFILE_KS.gdt_leader
      [] key = "dimensions-*"   -> STROKE_PROFILE_KS.dimensions
      [] OTHER -> [a \in {} |-> ""]

RECURSIVE SumSeq(_)
SumSeq(seq) == IF seq = <<>> THEN 0 ELSE Head(seq) + SumSeq(Tail(seq))

\* round(v, 2) and round(v, 1) on thousandths: to the nearest multiple of step,
\* a tie going to the even multiple (Python's round)
RoundTo(v, step) ==
    LET q == v \div step
        r == v % step
    IN  IF 2 * r < step THEN q * step
        ELSE IF 2 * r > step THEN (q + 1) * step
        ELSE IF q % 2 = 0 THEN q * step ELSE (q + 1) * step

\* precision=2 of round_coordinates, precision=1 of audit_gdt, as steps
STEP_P2 == 10

STEP_P1 == 100

--------------------------------------------------------------------------
(***************************************************************************)
(* Repair rules (postprocess_svg.py).  Each rule maps a tree to            *)
(* [tree, result].                                                         *)
(***************************************************************************)

ISO_CENTER(g) == Contains(cell_bbox("iso"), g.cx, g.cy)

\* Rule 1: remove the *_hidden groups whose first path centres in the ISO cell
remove_iso_hidden(tree) ==
    LET Keep(g) == ~(g.class \in HiddenClasses /\ ISO_CENTER(g))
        kept == SelectSeq(tree.groups, Keep)
    IN  [tree |-> [tree EXCEPT !.groups = kept],
         result |-> Len(tree.groups) - Len(kept)]

\* The attributes of a group with the profile's forced onto them
Normalized(g) ==
    LET prof == ProfileOf(ProfileKey(g.class))
    IN  [g EXCEPT !.attrs = [a \in AttrNames |->
                                IF a \in DOMAIN prof THEN prof[a] ELSE g.attrs[a]]]

\* Rule 2: force the profile's stroke attributes on every classed group
normalize_strokes(tree) ==
    LET out == [i \in 1..Len(tree.groups) |-> Normalized(tree.groups[i])]
    IN  [tree |-> [tree EXCEPT !.groups = out],
         result |-> Cardinality({i \in 1..Len(out) : out[i] # tree.groups[i]})]

\* NOTES_CONFIG
NOTES_MAX_WIDTH == 180 * MM

NOTES_LINE_HEIGHT == 4 * MM

NOTES_FONT_SIZE == 2 * MM

CHAR_WIDTH_PCT == 55

NOTES_START_X == 19 * MM

\* Characters that fit one line: max_width / (font_size * char_width_factor)
MaxChars == (NOTES_MAX_WIDTH * 100) \div (NOTES_FONT_SIZE * CHAR_WIDTH_PCT)

\* A text of n characters broken into lines of at most MaxChars
RECURSIVE Wrap(_)
Wrap(n) == IF n <= MaxChars THEN <<n>> ELSE <<MaxChars>> \o Wrap(n - MaxChars)

\* Lines laid out before the i-th text
RECURSIVE LinesBefore(_, _)
LinesBefore(texts, i) ==
    IF i <= 1 THEN 0
    ELSE LinesBefore(texts, i - 1) + Len(Wrap(SumSeq(texts[i - 1].lines)))

\* Re-spacing that moves each line down from where it stands, not from the
\* first line: a second pass moves the notes again
Reflowed_relative(texts, i) ==
    [texts[i] EXCEPT !.lines = Wrap(SumSeq(texts[i].lines)),
                     !.x = NOTES_START_X,
                     !.y = texts[i].y + LinesBefore(texts, i) * NOTES_LINE_HEIGHT]

\* The i-th text re-wrapped and put on its line: x at the left margin, y one
\* line height per line below the first text
Reflowed(texts, i) ==
    [texts[i] EXCEPT !.lines = Wrap(SumSeq(texts[i].lines)),
                     !.x = NOTES_START_X,
                     !.y = texts[1].y + LinesBefore(texts, i) * NOTES_LINE_HEIGHT]

\* Rule 3: re-wrap and re-space the general-notes texts
rewrap_notes(tree) ==
    LET out == [i \in 1..Len(tree.notes) |-> Reflowed(tree.notes, i)]
    IN  [tree |-> [tree EXCEPT !.notes = out],
         result |-> LinesBefore(tree.notes, Len(tree.notes) + 1)]

RoundedGroup(g) ==
    [g EXCEPT !.cx = RoundTo(g.cx, STEP_P2), !.cy = RoundTo(g.cy, STEP_P2)]

RoundedText(t) ==
    [t EXCEPT !.x = RoundTo(t.x, STEP_P2), !.y = RoundTo(t.y, STEP_P2)]

RoundedRect(f, step) ==
    [f EXCEPT !.x = RoundTo(f.x, step), !.y = RoundTo(f.y, step),
              !.w = RoundTo(f.w, step), !.h = RoundTo(f.h, step)]

RoundedCircle(c) ==
    [c EXCEPT !.cx = RoundTo(c.cx, STEP_P2), !.cy = RoundTo(c.cy, STEP_P2),
              !.r = RoundTo(c.r, STEP_P2)]

\* Every numeric geometric attribute of the tree, in document order
CoordList(tree) ==
    LET G(i) == <<tree.groups[i].cx, tree.groups[i].cy>>
        N(i) == <<tree.notes[i].x, tree.notes[i].y>>
        F(i) == <<tree.fcf[i].x, tree.fcf[i].y, tree.fcf[i].w, tree.fcf[i].h>>
        C(i) == <<tree.circles[i].cx, tree.circles[i].cy, tree.circles[i].r>>
        V(i) == <<tree.virtual[i].cx, tree.virtual[i].cy, tree.virtual[i].r>>
        Cat(F1(_), n) ==
            LET RECURSIVE Upto(_)
                Upto(k) == IF k = 0 THEN <<>> ELSE Upto(k - 1) \o F1(k)
            IN  Upto(n)
    IN  Cat(G, Len(tree.groups)) \o Cat(N, Len(tree.notes)) \o tree.coords
        \o Cat(F, Len(tree.fcf)) \o Cat(C, Len(tree.circles))
        \o Cat(V, Len(tree.virtual))

\* Rule 4: round every numeric geometric attribute to two decimals
round_coordinates(tree) ==
    LET out == [tree EXCEPT
                  !.groups = [i \in 1..Len(tree.groups) |-> RoundedGroup(tree.groups[i])],
                  !.notes = [i \in 1..Len(tree.notes) |-> RoundedText(tree.notes[i])],
                  !.coords = [i \in 1..Len(tree.coords) |-> RoundTo(tree.coords[i], STEP_P2)],
                  !.fcf = [i \in 1..Len(tree.fcf) |-> RoundedRect(tree.fcf[i], STEP_P2)],
                  !.circles = [i \in 1..Len(tree.circles) |-> RoundedCircle(tree.circles[i])],
                  !.virtual = [i \in 1..Len(tree.virtual) |-> RoundedCircle(tree.virtual[i])]]
        before == CoordList(tree)
        after == CoordList(out)
    IN  [tree |-> out,
         result |-> Cardinality({i \in 1..Len(before) : before[i] # after[i]})]

\* The mandatory tier: rules 1 to 4 in order
MandatoryTier(tree) ==
    round_coordinates(
        rewrap_notes(
            normalize_strokes(
                remove_iso_hidden(tree).tree).tree).tree).tree

--------------------------------------------------------------------------
(* Bounded documents *)

MaxGroups == 2

MaxNotes == 2

MaxCoords == 2

MaxPasses == 2

OffAttrs == [NoAttrs EXCEPT !["stroke-width"] = "0.35", !["stroke"] = "#999"]

Group(class, cx, cy, attrs, npaths) ==
    [class |-> class, cx |-> cx, cy |-> cy, attrs |-> attrs, npaths |-> npaths]

\* Points inside the ISO cell and inside the FRONT cell
ISO_PT == [x |-> 260 * MM, y |-> 60 * MM]

FRONT_PT == [x |-> 100 * MM + 4, y |-> 180 * MM]

GroupChoices ==
    { Group("hard_hidden", ISO_PT.x, ISO_PT.y, OffAttrs, 10),
      Group("hard_hidden", FRONT_PT.x, FRONT_PT.y, NoAttrs, 10),
      Group("dimensions-front", FRONT_PT.x, FRONT_PT.y, OffAttrs, 10),
      Group("smooth_visible", ISO_PT.x, ISO_PT.y,
            [NoAttrs EXCEPT !["stroke-width"] = "0.35", !["stroke"] = "#000"], 700) }

Text(lines, x, y, header) ==
    [lines |-> lines, x |-> x, y |-> y, header |-> header, bolt |-> <<>>]

NoteChoices ==
    { Text(<<6>>, 19 * MM, 200 * MM, TRUE),
      Text(<<220>>, 25 * MM, 223318, FALSE),
      Text(<<100, 100>>, 19 * MM, 231235, FALSE) }

CoordChoices == {223318, 12345, 100 * MM}

SeqsUpTo(S, n) == UNION { [1..k -> S] : k \in 0..n }

Doc(groups, notes, coords) ==
    [groups |-> groups, notes |-> notes, coords |-> coords,
     fcf |-> <<>>, circles |-> <<>>, virtual |-> <<>>]

TierDocs ==
    { Doc(g, n, c) : g \in SeqsUpTo(GroupChoices, MaxGroups),
                     n \in SeqsUpTo(NoteChoices, MaxNotes),
                     c \in SeqsUpTo(CoordChoices, MaxCoords) }

EmptyDoc == Doc(<<>>, <<>>, <<>>)

TierIdle == tdoc = EmptyDoc /\ tonce = EmptyDoc /\ tpasses = 0

TierInit ==
    /\ tdoc \in TierDocs
    /\ tonce = EmptyDoc
    /\ tpasses = 0

\* One application of rules 1 to 4 to the current document
ApplyTier ==
    /\ tpasses < MaxPasses
    /\ tdoc' = MandatoryTier(tdoc)
    /\ tonce' = IF tpasses = 0 THEN MandatoryTier(tdoc) ELSE tonce
    /\ tpasses' = tpasses + 1
    /\ UNCHANGED notTier

--------------------------------------------------------------------------
(* Repair engine: the best-effort rules 5 to 8 *)

MAX_PATHS == 600

\* Rule 5: in the ISO cell drop every iso_visible group, and a
\* smooth_visible group holding more than max_paths paths
simplify_iso(tree) ==
    LET Drop(g) == /\ ISO_CENTER(g)
                   /\ \/ g.class = "iso_visible"
                      \/ g.class = "smooth_visible" /\ g.npaths > MAX_PATHS
        Keep(g) == ~Drop(g)
        gone == SelectSeq(tree.groups, Drop)
    IN  [tree |-> [tree EXCEPT !.groups = SelectSeq(tree.groups, Keep)],
         result |-> SumSeq([i \in 1..Len(gone) |-> gone[i].npaths])]

\* The cell a point lies in, "" outside every cell
CellOf(px, py) ==
    IF \E v \in DOMAIN CELLS : Contains(CELLS[v], px, py)
    THEN CHOOSE v \in DOMAIN CELLS : Contains(CELLS[v], px, py)
    ELSE ""

\* A feature control frame leaves its cell when its far corner is not in
\* the cell of its near corner
FcfOverflows(f) ==
    \/ CellOf(f.x, f.y) = ""
    \/ ~Contains(CELLS[CellOf(f.x, f.y)], f.x + f.w, f.y + f.h)

\* Rule 6: round every FCF rect to one decimal and report the audit
audit_gdt(tree) ==
    LET out == [tree EXCEPT
                  !.fcf = [i \in 1..Len(tree.fcf) |-> RoundedRect(tree.fcf[i], STEP_P1)]]
        idx == 1..Len(tree.fcf)
    IN  [tree |-> out,
         result |-> [total |-> Len(tree.fcf),
                     anchored |-> Cardinality({i \in idx : tree.fcf[i].anchored}),
                     overflow |-> Cardinality({i \in idx : FcfOverflows(out.fcf[i])}),
                     rounded |-> Cardinality({i \in idx : out.fcf[i] # tree.fcf[i]})]]

\* The value_mm of the plan's intent with the given id, 0 when absent
IntentValue(plan, id) == IF id \in DOMAIN plan.dims THEN plan.dims[id] ELSE 0

\* Two holes taken to make a pattern
MIN_BOLT_HOLES_two == 3 - 1

MIN_BOLT_HOLES == 3

BOLT_TOL_PCT == 30

GROUP_TOL_PCT == 10

\* Integer square root
RECURSIVE ISqrtIn(_, _, _)
ISqrtIn(n, lo, hi) ==
    IF lo >= hi THEN lo
    ELSE LET mid == (lo + hi + 1) \div 2
         IN  IF mid * mid <= n THEN ISqrtIn(n, mid, hi) ELSE ISqrtIn(n, lo, mid - 1)

ISqrt(n) == ISqrtIn(n, 0, 46340)

Abs(v) == IF v < 0 THEN 0 - v ELSE v

\* Distance between two points given in thousandths, in thousandths
\* (computed on hundredths so that the squares stay in range)
Dist(ax, ay, bx, by) ==
    LET dx == Abs(ax - bx) \div 10
        dy == Abs(ay - by) \div 10
    IN  ISqrt(dx * dx + dy * dy) * 10

\* The circles of the front view that are bolt hole candidates
BoltCandidates(tree, bolt_dia) ==
    LET InFront(c) == Contains(cell_bbox("front"), c.cx, c.cy)
        front == SelectSeq(tree.circles, InFront)
        ByDia(c) == Abs(2 * c.r - bolt_dia) * 100 <= BOLT_TOL_PCT * bolt_dia
        byDia == SelectSeq(front, ByDia)
        GroupOf(c) ==
            LET Like(d) == Abs(d.r - c.r) * 100 <= GROUP_TOL_PCT * c.r
            IN  SelectSeq(front, Like)
        Seeds == {i \in 1..Len(front) : Len(GroupOf(front[i])) >= MIN_BOLT_HOLES}
        byGroup == IF Seeds = {} THEN <<>>
                   ELSE GroupOf(front[CHOOSE i \in Seeds : \A j \in Seeds : i <= j])
    IN  IF bolt_dia > 0 /\ Len(byDia) >= MIN_BOLT_HOLES THEN byDia ELSE byGroup

\* Rule 7: draw the pitch circle through the bolt holes of the front view
inject_pcd_virtual_circle(tree, plan) ==
    LET pcd == IntentValue(plan, "PCD")
        cand == BoltCandidates(tree, IntentValue(plan, "BOLT_DIA"))
        n == Len(cand)
        cx == SumSeq([i \in 1..n |-> cand[i].cx]) \div n
        cy == SumSeq([i \in 1..n |-> cand[i].cy]) \div n
        r == SumSeq([i \in 1..n |-> Dist(cand[i].cx, cand[i].cy, cx, cy)]) \div n
    IN  IF pcd = 0 \/ n < MIN_BOLT_HOLES
        THEN [tree |-> tree, result |-> 0]
        ELSE [tree |-> [tree EXCEPT !.virtual =
                            Append(@, [cx |-> cx, cy |-> cy, r |-> r, label |-> pcd])],
              result |-> 1]

LINE_H == 4 * MM

TITLEBLOCK_Y == 247 * MM

\* "6x dia.13.5 HOLES EQUALLY SPACED ON PCD dia.100"
BOLT_NOTE_CHARS == 47

\* The note appended wherever the notes end
inject_bolt_count_note_unchecked(tree, plan) ==
    LET n == IntentValue(plan, "BOLT_COUNT")
        d == IntentValue(plan, "BOLT_DIA")
        pcd == IntentValue(plan, "PCD")
        last == tree.notes[Len(tree.notes)]
        y == last.y + LINE_H
    IN  IF n = 0 \/ d = 0 \/ pcd = 0 \/ tree.notes = <<>>
        THEN [tree |-> tree, result |-> 0]
        ELSE [tree |-> [tree EXCEPT !.notes =
                            Append(@, [lines |-> <<BOLT_NOTE_CHARS>>, x |-> last.x,
                                       y |-> y, header |-> FALSE,
                                       bolt |-> <<n, d, pcd>>])],
              result |-> 1]

\* Rule 8: append the bolt pattern note after the last general note
inject_bolt_count_note(tree, plan) ==
    LET n == IntentValue(plan, "BOLT_COUNT")
        d == IntentValue(plan, "BOLT_DIA")
        pcd == IntentValue(plan, "PCD")
        last == tree.notes[Len(tree.notes)]
        y == last.y + LINE_H
    IN  IF n = 0 \/ d = 0 \/ pcd = 0 \/ tree.notes = <<>> \/ y > TITLEBLOCK_Y
        THEN [tree |-> tree, result |-> 0]
        ELSE [tree |-> [tree EXCEPT !.notes =
                            Append(@, [lines |-> <<BOLT_NOTE_CHARS>>, x |-> last.x,
                                       y |-> y, header |-> FALSE,
                                       bolt |-> <<n, d, pcd>>])],
              result |-> 1]

--------------------------------------------------------------------------
(* Repair engine: postprocess() as a state machine *)

Rules == 1..8

\* The --report key of each rule
ReportKey(r) ==
    CASE r = 1 -> "iso_hidden_removed"
      [] r = 2 -> "strokes_normalized"
      [] r = 3 -> "notes_rewrapped"
      [] r = 4 -> "coords_rounded"
      [] r = 5 -> "iso_simplified"
      [] r = 6 -> "gdt_audit"
      [] r = 7 -> "virtual_pcd"
      [] r = 8 -> "bolt_count_note"

ApplyRule(r, tree, plan) ==
    CASE r = 1 -> remove_iso_hidden(tree)
      [] r = 2 -> normalize_strokes(tree)
      [] r = 3 -> rewrap_notes(tree)
      [] r = 4 -> round_coordinates(tree)
      [] r = 5 -> simplify_iso(tree)
      [] r = 6 -> audit_gdt(tree)
      [] r = 7 -> inject_pcd_virtual_circle(tree, plan)
      [] r = 8 -> inject_bolt_count_note(tree, plan)

\* The order of the passes when the plan-driven passes run after the
\* plan-free ones
PassOrders_plan_last(plan) ==
    IF plan.given THEN {<<1, 2, 3, 4, 5, 6, 7, 8>>} ELSE {<<1, 2, 3, 4, 5, 6>>}

\* The orders postprocess() can run its passes in.  Without plan_file the
\* six passes of the pipeline; with one, inject_pcd_virtual_circle is
\* inserted before round_coordinates, and inject_bolt_count_note is a
\* further pass whose place the source leaves open: next to the other
\* plan-driven pass, or appended to the pipeline.
PassOrders(plan) ==
    IF plan.given
    THEN {<<1, 2, 3, 7, 8, 4, 5, 6>>, <<1, 2, 3, 7, 4, 5, 6, 8>>}
    ELSE {<<1, 2, 3, 4, 5, 6>>}

NoEnginePlan == [given |-> FALSE, dims |-> [id \in {} |-> 0]]

EnginePlan(ids) ==
    [given |-> TRUE,
     dims |-> [id \in ids |-> CASE id = "PCD" -> 100 * MM
                                [] id = "BOLT_DIA" -> 13500
                                [] id = "BOLT_COUNT" -> 6]]

EnginePlans == {NoEnginePlan, EnginePlan(IntentIds), EnginePlan({"PCD", "BOLT_COUNT"})}

Circle(cx, cy, r) == [cx |-> cx, cy |-> cy, r |-> r]

Fcf(anchored, x, y, w, h) == [anchored |-> anchored, x |-> x, y |-> y, w |-> w, h |-> h]

\* A flange drawing: hidden and thin lines in the ISO view, a long note,
\* unrounded coordinates, a feature control frame and four bolt holes
FlangeDoc ==
    [groups |-> <<Group("hard_hidden", ISO_PT.x, ISO_PT.y, OffAttrs, 3),
                  Group("iso_visible", ISO_PT.x, ISO_PT.y, NoAttrs, 40),
                  Group("smooth_visible", ISO_PT.x, ISO_PT.y, NoAttrs, 700),
                  Group("hard_visible", FRONT_PT.x, FRONT_PT.y, OffAttrs, 5)>>,
     notes |-> <<Text(<<5>>, NOTES_START_X, 226 * MM, TRUE),
                 Text(<<220>>, NOTES_START_X, 230 * MM, FALSE)>>,
     coords |-> <<223318, 12345>>,
     fcf |-> <<Fcf(TRUE, 150 * MM + 55, 240 * MM + 149, 30 * MM, 6 * MM)>>,
     circles |-> <<Circle(150 * MM + 4, 189 * MM, 6750), Circle(50 * MM, 189 * MM, 6750),
                   Circle(100 * MM, 239 * MM + 6, 6750), Circle(100 * MM, 139 * MM, 6750),
                   Circle(100 * MM, 189 * MM, 30 * MM)>>,
     virtual |-> <<>>]

\* A bracket drawing: two holes only, and notes that reach the title block
BracketDoc ==
    [groups |-> <<Group("smooth_visible", ISO_PT.x, ISO_PT.y, NoAttrs, 80)>>,
     notes |-> <<Text(<<30>>, NOTES_START_X, 245 * MM, FALSE)>>,
     coords |-> <<100 * MM>>,
     fcf |-> <<Fcf(FALSE, 190 * MM, 240 * MM, 30 * MM, 12 * MM)>>,
     circles |-> <<Circle(60 * MM, 180 * MM, 4 * MM), Circle(140 * MM, 180 * MM, 4 * MM)>>,
     virtual |-> <<>>]

EngineDocs == {FlangeDoc, BracketDoc, EmptyDoc}

Paths == {"in.svg", "out.svg"}

NoFile == [exists |-> FALSE, wellFormed |-> FALSE, doc |-> EmptyDoc]

SvgFile(doc) == [exists |-> TRUE, wellFormed |-> TRUE, doc |-> doc]

\* A file that is not well-formed XML
BrokenFile == [exists |-> TRUE, wellFormed |-> FALSE, doc |-> EmptyDoc]

InputFiles == {SvgFile(d) : d \in EngineDocs} \cup {BrokenFile}

PpIdle ==
    /\ ppFiles = [p \in Paths |-> NoFile]
    /\ ppOrig = [p \in Paths |-> NoFile]
    /\ ppArgs = [input |-> "in.svg", output |-> "in.svg", dry_run |-> TRUE,
                 plan |-> NoEnginePlan]
    /\ ppOrder = <<>>
    /\ ppPc = "idle"
    /\ ppTree = EmptyDoc
    /\ ppRunning = 0
    /\ ppStarted = <<>>
    /\ ppFinished = <<>>
    /\ ppThrown = {}
    /\ ppReport = <<>>

PpInit ==
    /\ \E f \in InputFiles : ppFiles = [p \in Paths |-> IF p = "in.svg" THEN f ELSE NoFile]
    /\ ppOrig = ppFiles
    /\ \E out \in Paths, dry \in BOOLEAN, plan \in EnginePlans :
          ppArgs = [input |-> "in.svg", output |-> out, dry_run |-> dry, plan |-> plan]
    /\ ppOrder \in PassOrders(ppArgs.plan)
    /\ ppPc = "start"
    /\ ppTree = EmptyDoc
    /\ ppRunning = 0
    /\ ppStarted = <<>>
    /\ ppFinished = <<>>
    /\ ppThrown = {}
    /\ ppReport = <<>>

\* load_svg parses the input
PpLoad ==
    /\ ppPc = "start"
    /\ ppFiles[ppArgs.input].wellFormed
    /\ ppTree' = ppFiles[ppArgs.input].doc
    /\ ppPc' = "rules"
    /\ UNCHANGED <<ppFiles, ppOrig, ppArgs, ppOrder, ppRunning, ppStarted,
                   ppFinished, ppThrown, ppReport>>
    /\ UNCHANGED notPp

\* load_svg fails on the input: the run ends with an error and no file is
\* written
PpLoadFail_truncates ==
    /\ ppPc = "start"
    /\ ~ppFiles[ppArgs.input].wellFormed
    /\ ppPc' = "parse_error"
    /\ ppFiles' = [ppFiles EXCEPT ![ppArgs.output] = SvgFile(EmptyDoc)]
    /\ ppReport' = Append(ppReport, [rule |-> "load_svg", ok |-> FALSE])
    /\ UNCHANGED <<ppOrig, ppArgs, ppOrder, ppTree, ppRunning, ppStarted,
                   ppFinished, ppThrown>>
    /\ UNCHANGED notPp

PpLoadFail ==
    /\ ppPc = "start"
    /\ ~ppFiles[ppArgs.input].wellFormed
    /\ ppPc' = "parse_error"
    /\ ppReport' = Append(ppReport, [rule |-> "load_svg", ok |-> FALSE])
    /\ UNCHANGED <<ppFiles, ppOrig, ppArgs, ppOrder, ppTree, ppRunning, ppStarted,
                   ppFinished, ppThrown>>
    /\ UNCHANGED notPp

\* The next pass of the pipeline is entered
PpBeginRule ==
    /\ ppPc = "rules"
    /\ ppRunning = 0
    /\ Len(ppFinished) < Len(ppOrder)
    /\ ppRunning' = ppOrder[Len(ppFinished) + 1]
    /\ ppStarted' = Append(ppStarted, ppOrder[Len(ppFinished) + 1])
    /\ UNCHANGED <<ppFiles, ppOrig, ppArgs, ppOrder, ppPc, ppTree, ppFinished,
                   ppThrown, ppReport>>
    /\ UNCHANGED notPp

\* The running pass returns: the tree is changed, the result reported
PpEndRule ==
    /\ ppRunning # 0
    /\ LET out == ApplyRule(ppRunning, ppTree, ppArgs.plan)
       IN  /\ ppTree' = out.tree
           /\ ppReport' = Append(ppReport, [rule |-> ReportKey(ppRunning), ok |-> TRUE,
                                            result |-> out.result])
    /\ ppFinished' = Append(ppFinished, ppRunning)
    /\ ppRunning' = 0
    /\ UNCHANGED <<ppFiles, ppOrig, ppArgs, ppOrder, ppPc, ppStarted, ppThrown>>
    /\ UNCHANGED notPp

\* The running pass raises and the run is given up
PpRuleFails_aborts ==
    /\ ppRunning # 0
    /\ ppThrown' = ppThrown \cup {ppRunning}
    /\ ppReport' = Append(ppReport, [rule |-> ReportKey(ppRunning), ok |-> FALSE])
    /\ ppFinished' = Append(ppFinished, ppRunning)
    /\ ppRunning' = 0
    /\ ppPc' = "aborted"
    /\ UNCHANGED <<ppFiles, ppOrig, ppArgs, ppOrder, ppTree, ppStarted>>
    /\ UNCHANGED notPp

\* The running pass raises: that rule alone is skipped with a warning, the
\* failure is reported, and the remaining rules are still applied
PpRuleFails ==
    /\ ppRunning # 0
    /\ ppThrown' = ppThrown \cup {ppRunning}
    /\ ppReport' = Append(ppReport, [rule |-> ReportKey(ppRunning), ok |-> FALSE])
    /\ ppFinished' = Append(ppFinished, ppRunning)
    /\ ppRunning' = 0
    /\ UNCHANGED <<ppFiles, ppOrig, ppArgs, ppOrder, ppPc, ppTree, ppStarted>>
    /\ UNCHANGED notPp

\* if not dry_run: write_svg(tree, output_path); return report
PpWrite ==
    /\ ppPc = "rules"
    /\ ppRunning = 0
    /\ Len(ppFinished) = Len(ppOrder)
    /\ ppFiles' = IF ppArgs.dry_run THEN ppFiles
                  ELSE [ppFiles EXCEPT ![ppArgs.output] = SvgFile(ppTree)]
    /\ ppPc' = "done"
    /\ UNCHANGED <<ppOrig, ppArgs, ppOrder, ppTree, ppRunning, ppStarted,
                   ppFinished, ppThrown, ppReport>>
    /\ UNCHANGED notPp

--------------------------------------------------------------------------
(* fcad draw: argument parsing and run log *)

\* A command line token: whether it starts with "--", its text after the
\* dashes, and the integer it reads as (NaN when it is no number)
NaN == 0 - 1

Flag(body) == [dashes |-> TRUE, body |-> body, num |-> NaN]

Word(body) == [dashes |-> FALSE, body |-> body, num |-> NaN]

Num(n) == [dashes |-> FALSE, body |-> "", num |-> n]

\* parseInt(token)
ParseInt(tok) == IF tok.dashes THEN NaN ELSE tok.num

\* The argument loop of cmdDraw: --override takes the next token, any
\* other token starting with "--" is a flag, the rest is positional
RECURSIVE ParseFrom(_, _, _)
ParseFrom(args, i, acc) ==
    IF i > Len(args) THEN acc
    ELSE IF args[i] = Flag("override") /\ i + 1 <= Len(args)
    THEN ParseFrom(args, i + 2, [acc EXCEPT !.overridePath = Some(args[i + 1])])
    ELSE IF args[i].dashes
    THEN ParseFrom(args, i + 1, [acc EXCEPT !.flags = Append(@, args[i])])
    ELSE ParseFrom(args, i + 1, [acc EXCEPT !.positional = Append(@, args[i])])

ParseArgs(args) ==
    ParseFrom(args, 1, [flags |-> <<>>, positional |-> <<>>, overridePath |-> NA])

\* flags.includes(flag)
Includes(flags, flag) == \E i \in 1..Len(flags) : flags[i] = flag

\* flags.indexOf(flag), counted from 1; 0 when absent
IndexOf(flags, flag) ==
    IF Includes(flags, flag)
    THEN CHOOSE i \in 1..Len(flags) :
            flags[i] = flag /\ \A j \in 1..(i - 1) : flags[j] # flag
    ELSE 0

\* failUnder: the element after --fail-under in flags, NA when there is none
FailUnder(args) ==
    LET flags == ParseArgs(args).flags
        failIdx == IndexOf(flags, Flag("fail-under"))
    IN  IF failIdx > 0 /\ failIdx + 1 <= Len(flags) THEN Some(flags[failIdx + 1]) ELSE NA

\* Exit status of qa_scorer.py for a score and the --fail-under argument it
\* was given: none, a number, or a token that is no number (usage error)
QaScorerStatus(failUnder, score) ==
    IF failUnder = NA THEN 0
    ELSE IF ParseInt(failUnder[1]) = NaN THEN 2
    ELSE IF score < ParseInt(failUnder[1]) THEN 1
    ELSE 0

Stage(name, status, svg) == [name |-> name, status |-> status, svg |-> svg]

\* beginStage
BeginStage(stages, name, svg) == Append(stages, Stage(name, "running", svg))

\* endStage on the stage begun last
EndStage(stages, status) == [stages EXCEPT ![Len(stages)].status = status]

\* addSkippedStage
AddSkippedStage(stages, name, svg) == Append(stages, Stage(name, "skipped", svg))

\* A finalizeRunLog that leaves the stages as they are
FinalizeRunLog_keeps_stages(log) == log

\* finalizeRunLog: a stage still running takes the status of the run
FinalizeRunLog(log) ==
    [log EXCEPT !.stages =
        [i \in 1..Len(log.stages) |->
            IF log.stages[i].status = "running"
            THEN [log.stages[i] EXCEPT
                    !.status = IF log.status = "failed" THEN "failed" ELSE "aborted"]
            ELSE log.stages[i]]]

\* js: v || 0
OrZero(v) == IF v = NA THEN 0 ELSE v[1]

\* qa_diff with the delta taken the wrong way round
QaDiff_reversed(args, before, after) ==
    [before |-> before, after |-> after, delta |-> before - after,
     gate |-> [fail_under |-> NA, passed |-> TRUE]]

\* The qa_diff object merged into the repair report
QaDiff(args, before, after) ==
    LET failUnder == FailUnder(args)
    IN  [before |-> before,
         after |-> after,
         delta |-> OrZero(Some(after)) - OrZero(Some(before)),
         gate |-> [fail_under |-> IF failUnder = NA THEN NA
                                  ELSE Some(ParseInt(failUnder[1])),
                   passed |-> \/ failUnder = NA
                              \/ /\ ParseInt(failUnder[1]) # NaN
                                 /\ OrZero(Some(after)) >= ParseInt(failUnder[1])]]

--------------------------------------------------------------------------
(* fcad draw: cmdDraw as a state machine *)

MaxSvgs == 2

Scores == {0, 50, 80, 95}

FLOOR == 80

CFG == Word("cfg.toml")

\* The command lines the model runs
CmdLines ==
    {<<>>,
     <<CFG>>,
     <<CFG, Flag("fail-under"), Num(FLOOR)>>,
     <<CFG, Flag("fail-under"), Num(FLOOR), Flag("no-plan")>>,
     <<Flag("fail-under"), Num(FLOOR), CFG>>,
     <<CFG, Flag("raw")>>,
     <<CFG, Flag("no-score")>>,
     <<CFG, Flag("no-plan")>>,
     <<CFG, Flag("raw"), Flag("no-score")>>,
     <<CFG, Flag("override"), Word("ov.toml"), Flag("bom")>>}

Running == 0 - 1

NoReport == [exists |-> FALSE, plan |-> NA, qa_diff |-> NA]

\* A repair report left by an earlier run
StaleReport == [exists |-> TRUE, plan |-> NA, qa_diff |-> NA]

NotScored == [before |-> NA, after |-> NA]

DrawIdle ==
    /\ rawArgs = <<>>
    /\ drawPc = "idle"
    /\ runLog = [status |-> "running", stages |-> <<>>]
    /\ hasPlan = FALSE
    /\ svgCount = 0
    /\ svgIdx = 0
    /\ qaBefore = NA
    /\ reports = [k \in 1..MaxSvgs |-> NoReport]
    /\ scored = [k \in 1..MaxSvgs |-> NotScored]
    /\ exitCode = Running
    /\ runLogFile = NA

DrawInit ==
    /\ rawArgs \in CmdLines
    /\ drawPc = "start"
    /\ runLog = [status |-> "running", stages |-> <<>>]
    /\ hasPlan = FALSE
    /\ svgCount = 0
    /\ svgIdx = 0
    /\ qaBefore = NA
    /\ \E r \in {NoReport, StaleReport} : reports = [k \in 1..MaxSvgs |-> r]
    /\ scored = [k \in 1..MaxSvgs |-> NotScored]
    /\ exitCode = Running
    /\ runLogFile = NA

HasFlag(body) == Includes(ParseArgs(rawArgs).flags, Flag(body))

\* The finally block of cmdDraw: the run log is finalized and written to
\* <stem>_run_log.json; when mkdirSync or writeJson throws, the error is
\* dropped and the file is not written
WriteRunLog(log) ==
    /\ runLog' = FinalizeRunLog(log)
    /\ \/ runLogFile' = Some(FinalizeRunLog(log))
       \/ runLogFile' = runLogFile

\* An exception leaves cmdDraw: the run log is marked failed, finalized and
\* written, and main() exits with status 1
Throws(stages) ==
    /\ WriteRunLog([status |-> "failed", stages |-> stages])
    /\ drawPc' = "exited"
    /\ exitCode' = 1

\* Arguments are parsed; without a config path the process exits at once
DrawStart ==
    /\ drawPc = "start"
    /\ IF ParseArgs(rawArgs).positional = <<>>
       THEN drawPc' = "exited" /\ exitCode' = 1
       ELSE drawPc' = "load_config" /\ exitCode' = exitCode
    /\ UNCHANGED <<runLogFile, rawArgs, runLog, hasPlan, svgCount, svgIdx, qaBefore, reports, scored>>
    /\ UNCHANGED notDraw

\* load_config: the first positional argument is read as the config
DrawLoadConfig ==
    /\ drawPc = "load_config"
    /\ LET begun == BeginStage(runLog.stages, "load_config", 0)
       IN  IF ParseArgs(rawArgs).positional[1] = CFG
           THEN /\ runLog' = [runLog EXCEPT !.stages = EndStage(begun, "ok")]
                /\ drawPc' = IF ParseArgs(rawArgs).overridePath = NA
                             THEN "intent_compile" ELSE "apply_override"
                /\ exitCode' = exitCode
                /\ runLogFile' = runLogFile
           ELSE Throws(begun)
    /\ UNCHANGED <<rawArgs, hasPlan, svgCount, svgIdx, qaBefore, reports, scored>>
    /\ UNCHANGED notDraw

\* apply_override: the override file loads, or loadConfig throws
DrawApplyOverride ==
    /\ drawPc = "apply_override"
    /\ LET begun == BeginStage(runLog.stages, "apply_override", 0)
       IN  \/ /\ runLog' = [runLog EXCEPT !.stages = EndStage(begun, "ok")]
              /\ drawPc' = "intent_compile"
              /\ exitCode' = exitCode
              /\ runLogFile' = runLogFile
           \/ Throws(begun)
    /\ UNCHANGED <<rawArgs, hasPlan, svgCount, svgIdx, qaBefore, reports, scored>>
    /\ UNCHANGED notDraw

\* intent_compile: skipped with --no-plan; else the compiler enriches the
\* config with drawing_plan, or fails with a warning
DrawIntentCompile ==
    /\ drawPc = "intent_compile"
    /\ IF HasFlag("no-plan")
       THEN /\ runLog' = [runLog EXCEPT !.stages = AddSkippedStage(@, "intent_compile", 0)]
            /\ hasPlan' = FALSE
       ELSE LET begun == BeginStage(runLog.stages, "intent_compile", 0)
            IN  \/ /\ runLog' = [runLog EXCEPT !.stages = EndStage(begun, "ok")]
                   /\ hasPlan' = TRUE
                \/ /\ runLog' = [runLog EXCEPT !.stages = EndStage(begun, "warning")]
                   /\ hasPlan' = FALSE
    /\ drawPc' = "generate_drawing"
    /\ UNCHANGED <<runLogFile, rawArgs, svgCount, svgIdx, qaBefore, reports, scored, exitCode>>
    /\ UNCHANGED notDraw

\* generate_drawing: the script returns its drawing paths, rejects, or
\* returns success=false
DrawGenerate ==
    /\ drawPc = "generate_drawing"
    /\ LET begun == BeginStage(runLog.stages, "generate_drawing", 0)
       IN  \/ /\ \E n \in 0..MaxSvgs : svgCount' = n
              /\ runLog' = [runLog EXCEPT !.stages = EndStage(begun, "ok")]
              /\ drawPc' = "persist_draw_artifacts"
              /\ exitCode' = exitCode
              /\ runLogFile' = runLogFile
           \/ /\ Throws(EndStage(begun, "failed"))
              /\ svgCount' = svgCount
           \/ /\ Throws(EndStage(begun, "ok"))
              /\ svgCount' = svgCount
    /\ UNCHANGED <<rawArgs, hasPlan, svgIdx, qaBefore, reports, scored>>
    /\ UNCHANGED notDraw

\* persist_draw_artifacts: the four JSON artifacts are written, or a
\* warning is logged
DrawPersist ==
    /\ drawPc = "persist_draw_artifacts"
    /\ \E status \in {"ok", "warning"} :
          runLog' = [runLog EXCEPT
                       !.stages = EndStage(BeginStage(@, "persist_draw_artifacts", 0), status)]
    /\ drawPc' = "save_plan"
    /\ UNCHANGED <<runLogFile, rawArgs, hasPlan, svgCount, svgIdx, qaBefore, reports, scored, exitCode>>
    /\ UNCHANGED notDraw

\* Where the loop over svgPaths goes for SVG number k
LoopAt(k) == IF k <= svgCount THEN "qa_before" ELSE "finish"

\* save_plan: the plan is written (TOML, or JSON as fallback) when there is
\* one; then the loop over the SVG files is entered
DrawSavePlan ==
    /\ drawPc = "save_plan"
    /\ runLog' = [runLog EXCEPT !.stages =
                    IF hasPlan THEN EndStage(BeginStage(@, "save_plan", 0), "ok")
                    ELSE AddSkippedStage(@, "save_plan", 0)]
    /\ svgIdx' = 1
    /\ drawPc' = LoopAt(1)
    /\ qaBefore' = NA
    /\ UNCHANGED <<runLogFile, rawArgs, hasPlan, svgCount, reports, scored, exitCode>>
    /\ UNCHANGED notDraw

\* Step 2a: the scorer is started on the raw SVG, unless --no-score or --raw
DrawBeginQaBefore ==
    /\ drawPc = "qa_before"
    /\ qaBefore' = NA
    /\ IF ~HasFlag("no-score") /\ ~HasFlag("raw")
       THEN /\ runLog' = [runLog EXCEPT !.stages = BeginStage(@, "qa_before", svgIdx)]
            /\ drawPc' = "qa_before_run"
       ELSE /\ runLog' = runLog
            /\ drawPc' = "postprocess_svg"
    /\ UNCHANGED <<runLogFile, rawArgs, hasPlan, svgCount, svgIdx, reports, scored, exitCode>>
    /\ UNCHANGED notDraw

\* The scorer returns and its report is read, or the step fails with a
\* warning and qaBefore stays null
DrawEndQaBefore ==
    /\ drawPc = "qa_before_run"
    /\ \/ \E s \in Scores :
             /\ qaBefore' = Some(s)
             /\ scored' = [scored EXCEPT ![svgIdx].before = Some(s)]
             /\ runLog' = [runLog EXCEPT !.stages = EndStage(@, "ok")]
       \/ /\ qaBefore' = NA
          /\ scored' = scored
          /\ runLog' = [runLog EXCEPT !.stages = EndStage(@, "warning")]
    /\ drawPc' = "postprocess_svg"
    /\ UNCHANGED <<runLogFile, rawArgs, hasPlan, svgCount, svgIdx, reports, exitCode>>
    /\ UNCHANGED notDraw

\* Step 2b, begun while the scorer of step 2a has not returned
DrawBeginPostprocess_overlapping ==
    /\ drawPc \in {"postprocess_svg", "qa_before_run"}
    /\ runLog' = [runLog EXCEPT !.stages = BeginStage(@, "postprocess_svg", svgIdx)]
    /\ drawPc' = "postprocess_run"
    /\ UNCHANGED <<runLogFile, rawArgs, hasPlan, svgCount, svgIdx, qaBefore, reports, scored, exitCode>>
    /\ UNCHANGED notDraw

\* Step 2b: the post-processor is started on the SVG, in place, unless --raw
DrawBeginPostprocess ==
    /\ drawPc = "postprocess_svg"
    /\ IF ~HasFlag("raw")
       THEN /\ runLog' = [runLog EXCEPT !.stages = BeginStage(@, "postprocess_svg", svgIdx)]
            /\ drawPc' = "postprocess_run"
       ELSE /\ runLog' = [runLog EXCEPT !.stages =
                             AddSkippedStage(@, "postprocess_svg", svgIdx)]
            /\ drawPc' = "qa_after"
    /\ UNCHANGED <<runLogFile, rawArgs, hasPlan, svgCount, svgIdx, qaBefore, reports, scored, exitCode>>
    /\ UNCHANGED notDraw

\* The plan sub-object cmdDraw injects into the repair report
PlanMeta == [used |-> hasPlan, template |-> IF hasPlan THEN "part_type" ELSE ""]

\* The post-processor returns and its report gets the plan metadata, or the
\* step fails with a warning
DrawEndPostprocess ==
    /\ drawPc = "postprocess_run"
    /\ \/ /\ reports' = [reports EXCEPT ![svgIdx] =
                            [exists |-> TRUE, plan |-> Some(PlanMeta), qa_diff |-> NA]]
          /\ runLog' = [runLog EXCEPT !.stages = EndStage(@, "ok")]
       \/ /\ reports' = reports
          /\ runLog' = [runLog EXCEPT !.stages = EndStage(@, "warning")]
    /\ drawPc' = "qa_after"
    /\ UNCHANGED <<runLogFile, rawArgs, hasPlan, svgCount, svgIdx, qaBefore, scored, exitCode>>
    /\ UNCHANGED notDraw

\* Step 3: the scorer is started on the SVG as it now is, unless --no-score
DrawBeginQaAfter ==
    /\ drawPc = "qa_after"
    /\ IF ~HasFlag("no-score")
       THEN /\ runLog' = [runLog EXCEPT !.stages = BeginStage(@, "qa_after", svgIdx)]
            /\ drawPc' = "qa_after_run"
            /\ svgIdx' = svgIdx
       ELSE /\ runLog' = [runLog EXCEPT !.stages = AddSkippedStage(@, "qa_after", svgIdx)]
            /\ drawPc' = LoopAt(svgIdx + 1)
            /\ svgIdx' = svgIdx + 1
    /\ UNCHANGED <<runLogFile, rawArgs, hasPlan, svgCount, qaBefore, reports, scored, exitCode>>
    /\ UNCHANGED notDraw

\* The scorer returns.  Exit status 0: its report is read, qa_diff is merged
\* into the repair report when there is a before score and a report, and the
\* loop goes on.  A non-zero exit status fails the stage and the run.  A
\* failure without exit status (timeout, unreadable report) is a warning.
DrawEndQaAfter ==
    /\ drawPc = "qa_after_run"
    /\ \/ \E s \in Scores :
             /\ scored' = IF QaScorerStatus(FailUnder(rawArgs), s) \in {0, 1}
                          THEN [scored EXCEPT ![svgIdx].after = Some(s)]
                          ELSE scored
             /\ IF QaScorerStatus(FailUnder(rawArgs), s) = 0
                THEN /\ reports' =
                           IF ~HasFlag("raw") /\ qaBefore # NA /\ reports[svgIdx].exists
                           THEN [reports EXCEPT ![svgIdx].qa_diff =
                                    Some(QaDiff(rawArgs, qaBefore[1], s))]
                           ELSE reports
                     /\ runLog' = [runLog EXCEPT !.stages = EndStage(@, "ok")]
                     /\ drawPc' = LoopAt(svgIdx + 1)
                     /\ svgIdx' = svgIdx + 1
                     /\ exitCode' = exitCode
                     /\ runLogFile' = runLogFile
                ELSE /\ Throws(EndStage(runLog.stages, "failed"))
                     /\ UNCHANGED <<reports, svgIdx>>
       \/ /\ Throws(EndStage(runLog.stages, "failed"))
          /\ UNCHANGED <<reports, scored, svgIdx>>
       \/ /\ runLog' = [runLog EXCEPT !.stages = EndStage(@, "warning")]
          /\ drawPc' = LoopAt(svgIdx + 1)
          /\ svgIdx' = svgIdx + 1
          /\ UNCHANGED <<reports, scored, exitCode, runLogFile>>
    /\ UNCHANGED <<rawArgs, hasPlan, svgCount, qaBefore>>
    /\ UNCHANGED notDraw

\* The loop is over: the run log is marked success and written, cmdDraw
\* returns and the process ends with status 0
DrawFinish ==
    /\ drawPc = "finish"
    /\ WriteRunLog([runLog EXCEPT !.status = "success"])
    /\ drawPc' = "exited"
    /\ exitCode' = 0
    /\ UNCHANGED <<rawArgs, hasPlan, svgCount, svgIdx, qaBefore, reports, scored>>
    /\ UNCHANGED notDraw

--------------------------------------------------------------------------
(* Drawing server: plan files, draw and update_dimension handlers *)

MaxConns == 2

MaxRequests == 3

Conns == 1..MaxConns

NoPath == ""

\* join(OUTPUT_DIR, `${modelName}_plan.toml`)
PlanPathOf(modelName) == "output/" \o modelName \o "_plan.toml"

PlanPaths == {PlanPathOf("flange")}

\* A plan_path a client may send that is not the session's
OtherPath == "output/other_plan.toml"

\* The path a model name with a parent-directory segment leads to
EscapedPath == PlanPathOf("../escape")

\* The files the server may come to read or write
FilePaths == PlanPaths \cup {EscapedPath}

\* A path as its segments, the file name last
Segments(path) ==
    CASE path = PlanPathOf("flange") -> <<"output", "flange_plan.toml">>
      [] path = OtherPath -> <<"output", "other_plan.toml">>
      [] path = EscapedPath -> <<"output", "..", "escape_plan.toml">>
      [] OTHER -> <<>>

\* The names that end in _plan.toml
PlanFileNames == {"flange_plan.toml", "other_plan.toml", "escape_plan.toml"}

\* path.resolve: a ".." segment removes the segment before it
RECURSIVE resolvePath(_)
resolvePath(segs) ==
    IF segs = <<>> THEN <<>>
    ELSE LET front == resolvePath(SubSeq(segs, 1, Len(segs) - 1))
             last == segs[Len(segs)]
         IN  IF last = ".."
             THEN (IF front = <<>> THEN <<>> ELSE SubSeq(front, 1, Len(front) - 1))
             ELSE Append(front, last)

\* isSafePlanPath: the resolved path is inside the output directory and
\* ends in _plan.toml
isSafePlanPath(absPath) ==
    LET normalized == resolvePath(Segments(absPath))
    IN  /\ normalized # <<>>
        /\ normalized[1] = "output"
        /\ normalized[Len(normalized)] \in PlanFileNames

\* The TOML texts a client sends with draw: "" is the empty message field
Toml(text, valid, name, pcd) == [text |-> text, valid |-> valid, name |-> name, pcd |-> pcd]

NoToml == Toml("", FALSE, "", 0)

BrokenToml == Toml("name = ", FALSE, "", 0)

FlangeToml == Toml("flange", TRUE, "flange", 100)

FlangeWideToml == Toml("flange pcd=120", TRUE, "flange", 120)

\* A config whose name has a parent-directory segment
EscapeToml == Toml("name = ../escape", TRUE, "../escape", 100)

Tomls == {NoToml, BrokenToml, FlangeToml, FlangeWideToml, EscapeToml}

DimIntent(id, value_mm) == [id |-> id, value_mm |-> value_mm]

\* The drawing_plan the intent compiler returns for a config
CompiledPlan(config) ==
    [part_type |-> config.name,
     dim_intents |-> <<DimIntent("PCD", config.pcd), DimIntent("BOLT_DIA", 13)>>]

\* plan.dim_intents.find(d => d.id === dimId), as an index; 0 when absent
FindIntent(plan, dimId) ==
    IF \E i \in 1..Len(plan.dim_intents) : plan.dim_intents[i].id = dimId
    THEN CHOOSE i \in 1..Len(plan.dim_intents) :
            /\ plan.dim_intents[i].id = dimId
            /\ \A j \in 1..(i - 1) : plan.dim_intents[j].id # dimId
    ELSE 0

NoDrawTask == [pc |-> "idle", config |-> NoToml, forced |-> NoPath, plan |-> NA]

NoUpdTask ==
    [pc |-> "idle", path |-> NoPath, dim_id |-> "", value_mm |-> 0, data |-> NA,
     oldValue |-> 0, config_toml |-> NoToml]

NoWrite ==
    [kind |-> "none", conn |-> 0, path |-> NoPath, before |-> NA, after |-> NA,
     sessions |-> {}, dim_id |-> ""]

NoBuildTask == [pc |-> "idle", config |-> NoToml]

\* A client message: the connection it came on, its action, and whether it
\* carried a config
Request(c, action, config) == [conn |-> c, action |-> action, config |-> config]

NoRequest == Request(0, "", FALSE)

\* The type of a message sent with sendJSON: every text other than these
\* is the message of an {type: 'error'}
MsgType(msg) ==
    IF msg \in {"progress", "dimension_updated", "complete"} THEN msg ELSE "error"

\* The terminal messages a handler has sent, after one more sendJSON: the
\* client ends a request on 'complete' and on 'error'
Logged(terminals, msg) ==
    IF MsgType(msg) \in {"complete", "error"} THEN Append(terminals, MsgType(msg))
    ELSE terminals

\* One run of handleDraw or handleBuild: what it answers ("draw", "build",
\* or the "redraw" of update_dimension), the terminal messages it has sent,
\* and whether it has returned
HandlerLog(action, terminals, done) ==
    [action |-> action, terminals |-> terminals, done |-> done]

NoHandler == HandlerLog("none", <<>>, TRUE)

\* A handler that returned without waiting, on connection c
Returned(c, action, msg) ==
    [conn |-> c, log |-> HandlerLog(action, Logged(<<>>, msg), TRUE)]

\* No build in flight, no draw made, no message received
SxIdle ==
    /\ buildTask = [c \in Conns |-> NoBuildTask]
    /\ lastDraw = [c \in Conns |-> "none"]
    /\ lastReq = NoRequest
    /\ pipelineLog = [c \in Conns |-> NoHandler]
    /\ rejectLog = [conn |-> 0, log |-> NoHandler]

SrvIdle ==
    /\ building = [c \in Conns |-> FALSE]
    /\ lastPlanPath = [c \in Conns |-> NoPath]
    /\ planFiles = [p \in FilePaths |-> NA]
    /\ bakFiles = [p \in FilePaths |-> NA]
    /\ drawTask = [c \in Conns |-> NoDrawTask]
    /\ updTask = [c \in Conns |-> NoUpdTask]
    /\ lastMsg = [c \in Conns |-> ""]
    /\ lastWrite = NoWrite
    /\ requests = MaxRequests

\* wss.on('connection'): every connection starts with _building = false and
\* _lastPlanPath = null; no plan file has been written yet
SrvInit ==
    /\ building = [c \in Conns |-> FALSE]
    /\ lastPlanPath = [c \in Conns |-> NoPath]
    /\ planFiles = [p \in FilePaths |-> NA]
    /\ bakFiles = [p \in FilePaths |-> NA]
    /\ drawTask = [c \in Conns |-> NoDrawTask]
    /\ updTask = [c \in Conns |-> NoUpdTask]
    /\ lastMsg = [c \in Conns |-> ""]
    /\ lastWrite = NoWrite
    /\ requests = 0

\* The connections whose session plan is the file at that path
SessionsOn(path) == {c \in Conns : lastPlanPath[c] = path}

\* The synchronous head of handleDraw(ws, tomlStr, opts): the guards, then
\* _building = true, parseTOML, and the wait for mkdtemp.  A return inside
\* the try block runs the finally block, which clears _building.
StartDraw(c, action, tomlStr, planPath, bld, tasks, msgs) ==
    IF tomlStr = NoToml
    THEN /\ lastMsg' = [msgs EXCEPT ![c] = "TOML config is required for drawing"]
         /\ building' = bld
         /\ drawTask' = tasks
         /\ lastDraw' = lastDraw
         /\ rejectLog' = Returned(c, action, "TOML config is required for drawing")
         /\ pipelineLog' = pipelineLog
    ELSE IF bld[c]
    THEN /\ lastMsg' = [msgs EXCEPT ![c] = "Build already in progress"]
         /\ building' = bld
         /\ drawTask' = tasks
         /\ lastDraw' = lastDraw
         /\ rejectLog' = Returned(c, action, "Build already in progress")
         /\ pipelineLog' = pipelineLog
    ELSE IF ~tomlStr.valid
    THEN /\ lastMsg' = [msgs EXCEPT ![c] = "TOML parse error"]
         /\ building' = [bld EXCEPT ![c] = FALSE]
         /\ drawTask' = tasks
         /\ lastDraw' = [lastDraw EXCEPT ![c] = "error"]
         /\ rejectLog' = Returned(c, action, "TOML parse error")
         /\ pipelineLog' = pipelineLog
    ELSE /\ lastMsg' = [msgs EXCEPT ![c] = "progress"]
         /\ building' = [bld EXCEPT ![c] = TRUE]
         /\ drawTask' = [tasks EXCEPT ![c] =
                           [pc |-> "prepare", config |-> tomlStr, forced |-> planPath,
                            plan |-> NA]]
         /\ lastDraw' = [lastDraw EXCEPT ![c] = "running"]
         /\ pipelineLog' = [pipelineLog EXCEPT ![c] =
                              HandlerLog(action, Logged(<<>>, "progress"), FALSE)]
         /\ rejectLog' = rejectLog

\* A handleDraw that ends without clearing _building
EndDraw_keeps_flag(c, msg) ==
    /\ building' = building
    /\ drawTask' = [drawTask EXCEPT ![c] = NoDrawTask]
    /\ lastMsg' = [lastMsg EXCEPT ![c] = msg]
    /\ lastDraw' = [lastDraw EXCEPT ![c] =
                      IF msg # "complete" THEN "error"
                      ELSE IF lastPlanPath[c] # NoPath THEN "result_with_plan"
                      ELSE "result_without_plan"]
    /\ pipelineLog' = [pipelineLog EXCEPT ![c] =
                         HandlerLog(@.action, Logged(@.terminals, msg), TRUE)]
    /\ rejectLog' = rejectLog

\* The end of handleDraw: the last message (drawing_result and complete, or
\* an error) and the finally block.  drawing_result carries the session's
\* plan path when there is one.
EndDraw(c, msg) ==
    /\ building' = [building EXCEPT ![c] = FALSE]
    /\ drawTask' = [drawTask EXCEPT ![c] = NoDrawTask]
    /\ lastMsg' = [lastMsg EXCEPT ![c] = msg]
    /\ lastDraw' = [lastDraw EXCEPT ![c] =
                      IF msg # "complete" THEN "error"
                      ELSE IF lastPlanPath[c] # NoPath THEN "result_with_plan"
                      ELSE "result_without_plan"]
    /\ pipelineLog' = [pipelineLog EXCEPT ![c] =
                         HandlerLog(@.action, Logged(@.terminals, msg), TRUE)]
    /\ rejectLog' = rejectLog

\* A client sends {action: 'draw', config}
OnDraw ==
    /\ requests < MaxRequests
    /\ requests' = requests + 1
    /\ \E c \in Conns, tomlStr \in Tomls :
          /\ StartDraw(c, "draw", tomlStr, NoPath, building, drawTask, lastMsg)
          /\ lastReq' = Request(c, "draw", tomlStr # NoToml)
    /\ UNCHANGED <<lastPlanPath, planFiles, bakFiles, updTask, lastWrite, buildTask>>
    /\ UNCHANGED notServer

\* handleDraw after mkdtemp: with a forced plan path the checks and the
\* start of readFile; else the intent compiler, which may fail silently,
\* then the start of writeFile or, without a plan, of generate_drawing
DrawPrepare ==
    \E c \in Conns :
        /\ drawTask[c].pc = "prepare"
        /\ IF drawTask[c].forced # NoPath
           THEN IF ~isSafePlanPath(drawTask[c].forced)
                   \/ (lastPlanPath[c] # NoPath /\ drawTask[c].forced # lastPlanPath[c])
                THEN EndDraw(c, "error") /\ lastPlanPath' = lastPlanPath
                ELSE /\ drawTask' = [drawTask EXCEPT ![c].pc = "load_plan"]
                     /\ UNCHANGED <<building, lastMsg, lastPlanPath, lastDraw,
                                    pipelineLog, rejectLog>>
           ELSE \/ /\ drawTask' = [drawTask EXCEPT
                                     ![c].pc = "write_plan",
                                     ![c].plan = Some(CompiledPlan(drawTask[c].config))]
                   /\ lastMsg' = [lastMsg EXCEPT ![c] = "progress"]
                   /\ UNCHANGED <<building, lastPlanPath, lastDraw, pipelineLog,
                                  rejectLog>>
                \/ /\ drawTask' = [drawTask EXCEPT ![c].pc = "generate"]
                   /\ lastPlanPath' = [lastPlanPath EXCEPT ![c] = NoPath]
                   /\ lastMsg' = [lastMsg EXCEPT ![c] = "progress"]
                   /\ UNCHANGED <<building, lastDraw, pipelineLog, rejectLog>>
        /\ UNCHANGED <<planFiles, bakFiles, updTask, lastWrite, requests, buildTask,
                       lastReq>>
        /\ UNCHANGED notServer

\* readFile(forcedPlanPath) returns: the edited plan becomes the plan of
\* this draw, or the draw ends with an error
DrawLoadPlan ==
    \E c \in Conns :
        /\ drawTask[c].pc = "load_plan"
        /\ IF drawTask[c].forced \notin PlanPaths \/ planFiles[drawTask[c].forced] = NA
           THEN EndDraw(c, "error")
           ELSE /\ drawTask' = [drawTask EXCEPT
                                  ![c].pc = "write_plan",
                                  ![c].plan = planFiles[drawTask[c].forced]]
                /\ lastMsg' = [lastMsg EXCEPT ![c] = "progress"]
                /\ UNCHANGED <<building, lastDraw, pipelineLog, rejectLog>>
        /\ UNCHANGED <<lastPlanPath, planFiles, bakFiles, updTask, lastWrite, requests,
                       buildTask, lastReq>>
        /\ UNCHANGED notServer

\* "Save plan for interactive editing": the plan of this draw is written to
\* the forced path or to output/<name>_plan.toml and becomes the plan of
\* the connection's session; when the write fails the session has no plan
DrawWritePlan ==
    \E c \in Conns :
        /\ drawTask[c].pc = "write_plan"
        /\ LET target == IF drawTask[c].forced # NoPath THEN drawTask[c].forced
                         ELSE PlanPathOf(drawTask[c].config.name)
           IN  \/ /\ target \in FilePaths
                  /\ planFiles' = [planFiles EXCEPT ![target] = drawTask[c].plan]
                  /\ lastPlanPath' = [lastPlanPath EXCEPT ![c] =
                                        IF isSafePlanPath(target) THEN target ELSE NoPath]
                  /\ lastWrite' = [kind |-> "save_plan", conn |-> c, path |-> target,
                                   before |-> planFiles[target], after |-> drawTask[c].plan,
                                   sessions |-> SessionsOn(target), dim_id |-> ""]
               \/ /\ lastPlanPath' = [lastPlanPath EXCEPT ![c] = NoPath]
                  /\ UNCHANGED <<planFiles, lastWrite>>
        /\ drawTask' = [drawTask EXCEPT ![c].pc = "generate"]
        /\ lastMsg' = [lastMsg EXCEPT ![c] = "progress"]
        /\ UNCHANGED <<building, bakFiles, updTask, requests>>
        /\ UNCHANGED notSrv

\* generate_drawing.py returns: drawing_result and complete are sent, or an
\* error; the finally block clears _building
DrawDone ==
    \E c \in Conns :
        /\ drawTask[c].pc = "generate"
        /\ \E msg \in {"complete", "error"} : EndDraw(c, msg)
        /\ UNCHANGED <<lastPlanPath, planFiles, bakFiles, updTask, lastWrite, requests,
                       buildTask, lastReq>>
        /\ UNCHANGED notServer

\* A handleBuild that does not look at _building
StartBuild_unguarded(c, tomlStr) ==
    IF ~tomlStr.valid
    THEN /\ lastMsg' = [lastMsg EXCEPT ![c] = "TOML parse error"]
         /\ building' = [building EXCEPT ![c] = FALSE]
         /\ buildTask' = buildTask
         /\ rejectLog' = Returned(c, "build", "TOML parse error")
         /\ pipelineLog' = pipelineLog
    ELSE /\ lastMsg' = [lastMsg EXCEPT ![c] = "progress"]
         /\ building' = [building EXCEPT ![c] = TRUE]
         /\ buildTask' = [buildTask EXCEPT ![c] = [pc |-> "run", config |-> tomlStr]]
         /\ pipelineLog' = [pipelineLog EXCEPT ![c] =
                              HandlerLog("build", Logged(<<>>, "progress"), FALSE)]
         /\ rejectLog' = rejectLog

\* The synchronous head of handleBuild(ws, tomlStr): the guard, then
\* _building = true, parseTOML (a throw is reported and the finally block
\* clears _building), and the wait for mkdtemp and the script
StartBuild(c, tomlStr) ==
    IF building[c]
    THEN /\ lastMsg' = [lastMsg EXCEPT ![c] = "Build already in progress"]
         /\ rejectLog' = Returned(c, "build", "Build already in progress")
         /\ UNCHANGED <<building, buildTask, pipelineLog>>
    ELSE IF ~tomlStr.valid
    THEN /\ lastMsg' = [lastMsg EXCEPT ![c] = "TOML parse error"]
         /\ building' = [building EXCEPT ![c] = FALSE]
         /\ buildTask' = buildTask
         /\ rejectLog' = Returned(c, "build", "TOML parse error")
         /\ pipelineLog' = pipelineLog
    ELSE /\ lastMsg' = [lastMsg EXCEPT ![c] = "progress"]
         /\ building' = [building EXCEPT ![c] = TRUE]
         /\ buildTask' = [buildTask EXCEPT ![c] = [pc |-> "run", config |-> tomlStr]]
         /\ pipelineLog' = [pipelineLog EXCEPT ![c] =
                              HandlerLog("build", Logged(<<>>, "progress"), FALSE)]
         /\ rejectLog' = rejectLog

\* A client sends {action: 'build', config}
OnBuild ==
    /\ requests < MaxRequests
    /\ requests' = requests + 1
    /\ \E c \in Conns, tomlStr \in Tomls :
          /\ StartBuild(c, tomlStr)
          /\ lastReq' = Request(c, "build", tomlStr # NoToml)
    /\ UNCHANGED <<lastPlanPath, planFiles, bakFiles, drawTask, updTask, lastWrite,
                   lastDraw>>
    /\ UNCHANGED notServer

\* A handleBuild that sends complete before it reads the STL files, so
\* that a failing read is reported after it
BuildDone_complete_before_stl ==
    \E c \in Conns :
        /\ buildTask[c].pc = "run"
        /\ \E msgs \in {<<"complete">>, <<"error">>, <<"complete", "error">>} :
              /\ lastMsg' = [lastMsg EXCEPT ![c] = msgs[Len(msgs)]]
              /\ pipelineLog' = [pipelineLog EXCEPT ![c] =
                     HandlerLog(@.action,
                                IF Len(msgs) = 1 THEN Logged(@.terminals, msgs[1])
                                ELSE Logged(Logged(@.terminals, msgs[1]), msgs[2]),
                                TRUE)]
        /\ building' = [building EXCEPT ![c] = FALSE]
        /\ buildTask' = [buildTask EXCEPT ![c] = NoBuildTask]
        /\ UNCHANGED <<lastPlanPath, planFiles, bakFiles, drawTask, updTask, lastWrite,
                       requests, lastDraw, lastReq, rejectLog>>
        /\ UNCHANGED notServer

\* create_model.py or fem_analysis.py returns: the model is sent and
\* complete, or an error (the script failed or threw, or reading an STL
\* file threw); the finally block clears _building
BuildDone ==
    \E c \in Conns :
        /\ buildTask[c].pc = "run"
        /\ \E msg \in {"complete", "error"} :
              /\ lastMsg' = [lastMsg EXCEPT ![c] = msg]
              /\ pipelineLog' = [pipelineLog EXCEPT ![c] =
                     HandlerLog(@.action, Logged(@.terminals, msg), TRUE)]
        /\ building' = [building EXCEPT ![c] = FALSE]
        /\ buildTask' = [buildTask EXCEPT ![c] = NoBuildTask]
        /\ UNCHANGED <<lastPlanPath, planFiles, bakFiles, drawTask, updTask, lastWrite,
                       requests, lastDraw, lastReq, rejectLog>>
        /\ UNCHANGED notServer

DimIds == {"", "PCD", "BOLT_DIA", "NOPE"}

DimValues == {0, 110, 120}

\* handleUpdateDimension without the check of the session's plan
OnUpdateDimension_any_session ==
    /\ requests < MaxRequests
    /\ requests' = requests + 1
    /\ \E c \in Conns, dim_id \in DimIds, value_mm \in DimValues,
          plan_path \in {NoPath, OtherPath} \cup PlanPaths,
          config_toml \in {NoToml, FlangeToml} :
          /\ updTask[c].pc = "idle"
          /\ lastReq' = Request(c, "update_dimension", config_toml # NoToml)
          /\ IF \/ dim_id = ""
                \/ building[c]
                \/ (plan_path # NoPath /\ plan_path # lastPlanPath[c])
                \/ value_mm <= 0
             THEN /\ lastMsg' = [lastMsg EXCEPT ![c] =
                        IF dim_id = "" THEN "dim_id and value_mm are required"
                        ELSE IF building[c] THEN "Build in progress - wait before editing"
                        ELSE IF lastPlanPath[c] = NoPath
                        THEN "No active plan. Generate a drawing first."
                        ELSE IF plan_path # NoPath /\ plan_path # lastPlanPath[c]
                        THEN "plan_path mismatch for this session"
                        ELSE "value_mm must be positive"]
                  /\ updTask' = updTask
             ELSE /\ lastMsg' = [lastMsg EXCEPT ![c] = "progress"]
                  /\ updTask' = [updTask EXCEPT ![c] =
                                   [pc |-> "read", path |-> lastPlanPath[c],
                                    dim_id |-> dim_id, value_mm |-> value_mm,
                                    data |-> NA, oldValue |-> 0,
                                    config_toml |-> config_toml]]
    /\ UNCHANGED <<building, lastPlanPath, planFiles, bakFiles, drawTask, lastWrite,
                   buildTask, lastDraw, pipelineLog, rejectLog>>
    /\ UNCHANGED notServer

\* A client sends {action: 'update_dimension', dim_id, value_mm, plan_path,
\* config_toml}: the guards of handleUpdateDimension, the validation of
\* updateDimIntent, and the start of readFile on the session's plan file.
\* (One update at a time is followed per connection.)
OnUpdateDimension ==
    /\ requests < MaxRequests
    /\ requests' = requests + 1
    /\ \E c \in Conns, dim_id \in DimIds, value_mm \in DimValues,
          plan_path \in {NoPath, OtherPath} \cup PlanPaths,
          config_toml \in {NoToml, FlangeToml} :
          /\ updTask[c].pc = "idle"
          /\ lastReq' = Request(c, "update_dimension", config_toml # NoToml)
          /\ IF \/ dim_id = ""
                \/ building[c]
                \/ lastPlanPath[c] = NoPath
                \/ (plan_path # NoPath /\ plan_path # lastPlanPath[c])
                \/ value_mm <= 0
             THEN /\ lastMsg' = [lastMsg EXCEPT ![c] =
                        IF dim_id = "" THEN "dim_id and value_mm are required"
                        ELSE IF building[c] THEN "Build in progress - wait before editing"
                        ELSE IF lastPlanPath[c] = NoPath
                        THEN "No active plan. Generate a drawing first."
                        ELSE IF plan_path # NoPath /\ plan_path # lastPlanPath[c]
                        THEN "plan_path mismatch for this session"
                        ELSE "value_mm must be positive"]
                  /\ updTask' = updTask
             ELSE /\ lastMsg' = [lastMsg EXCEPT ![c] = "progress"]
                  /\ updTask' = [updTask EXCEPT ![c] =
                                   [pc |-> "read", path |-> lastPlanPath[c],
                                    dim_id |-> dim_id, value_mm |-> value_mm,
                                    data |-> NA, oldValue |-> 0,
                                    config_toml |-> config_toml]]
    /\ UNCHANGED <<building, lastPlanPath, planFiles, bakFiles, drawTask, lastWrite,
                   buildTask, lastDraw, pipelineLog, rejectLog>>
    /\ UNCHANGED notServer

\* updateDimIntent after readFile: the file is parsed, the first intent with
\* the id is given the new value in memory, and copyFile is started
UpdateRead ==
    \E c \in Conns :
        /\ updTask[c].pc = "read"
        /\ LET file == IF updTask[c].path \in PlanPaths THEN planFiles[updTask[c].path]
                       ELSE NA
               i == FindIntent(file[1], updTask[c].dim_id)
           IN  IF file = NA \/ i = 0
               THEN /\ updTask' = [updTask EXCEPT ![c] = NoUpdTask]
                    /\ lastMsg' = [lastMsg EXCEPT ![c] = "error"]
               ELSE /\ updTask' = [updTask EXCEPT
                                     ![c].pc = "backup",
                                     ![c].oldValue = file[1].dim_intents[i].value_mm,
                                     ![c].data = Some([file[1] EXCEPT
                                         !.dim_intents[i].value_mm = updTask[c].value_mm])]
                    /\ lastMsg' = lastMsg
        /\ UNCHANGED <<building, lastPlanPath, planFiles, bakFiles, drawTask, lastWrite,
                       requests>>
        /\ UNCHANGED notSrv

\* updateDimIntent going on to writeFile without the copy
UpdateBackup_skipped ==
    \E c \in Conns :
        /\ updTask[c].pc = "backup"
        /\ updTask' = [updTask EXCEPT ![c].pc = "write"]
        /\ UNCHANGED <<building, lastPlanPath, planFiles, bakFiles, drawTask, lastMsg,
                       lastWrite, requests>>
        /\ UNCHANGED notSrv

\* copyFile(tomlPath, tomlPath + '.bak') is done; writeFile is started
UpdateBackup ==
    \E c \in Conns :
        /\ updTask[c].pc = "backup"
        /\ bakFiles' = [bakFiles EXCEPT ![updTask[c].path] = planFiles[updTask[c].path]]
        /\ updTask' = [updTask EXCEPT ![c].pc = "write"]
        /\ UNCHANGED <<building, lastPlanPath, planFiles, drawTask, lastMsg, lastWrite,
                       requests>>
        /\ UNCHANGED notSrv

\* writeFile is done: the plan file holds the data read earlier with the
\* one value replaced; dimension_updated is sent; with config_toml the
\* drawing is regenerated from the session's plan
UpdateWrite ==
    \E c \in Conns :
        /\ updTask[c].pc = "write"
        /\ planFiles' = [planFiles EXCEPT ![updTask[c].path] = updTask[c].data]
        /\ lastWrite' = [kind |-> "patch", conn |-> c, path |-> updTask[c].path,
                         before |-> planFiles[updTask[c].path], after |-> updTask[c].data,
                         sessions |-> SessionsOn(updTask[c].path),
                         dim_id |-> updTask[c].dim_id]
        /\ updTask' = [updTask EXCEPT ![c] = NoUpdTask]
        /\ IF updTask[c].config_toml # NoToml
           THEN StartDraw(c, "redraw", updTask[c].config_toml, lastPlanPath[c], building,
                          drawTask, [lastMsg EXCEPT ![c] = "dimension_updated"])
           ELSE /\ lastMsg' = [lastMsg EXCEPT ![c] = "dimension_updated"]
                /\ UNCHANGED <<building, drawTask, lastDraw, pipelineLog, rejectLog>>
        /\ UNCHANGED <<lastPlanPath, bakFiles, requests, buildTask, lastReq>>
        /\ UNCHANGED notServer

--------------------------------------------------------------------------
(***************************************************************************)
(* Intent compiler (intent_compiler.py as designed in the implementation   *)
(* plan): classification of the part, template, merge into drawing_plan    *)
(***************************************************************************)

\* A shape of the config: its type and, for a box, size[2] in mm
Shape(type, thickness) == [type |-> type, thickness |-> thickness]

THIN_MM == 20

\* config["assembly"] as Python sees it: no key (None), an empty table, or a
\* table with parts
AssemblyMarkers == {"absent", "empty", "parts"}

\* Python truthiness of config.get("assembly")
Truthy(assembly) == assembly = "parts"

classify_part_type(config) ==
    LET shapes == config.shapes
        shape_types == {shapes[i].type : i \in 1..Len(shapes)}
        op_types == config.operations
        has_cylinder == "cylinder" \in shape_types
        has_hole == "hole" \in op_types \/ "circular_pattern" \in op_types
        has_step ==
            Cardinality({i \in 1..Len(shapes) : shapes[i].type = "cylinder"}) > 2
    IN  IF Truthy(config.assembly) THEN "assembly"
        ELSE IF has_cylinder /\ has_hole /\ ~has_step THEN "flange"
        ELSE IF has_cylinder /\ has_step THEN "shaft"
        ELSE IF "box" \in shape_types /\ has_hole
             THEN IF \E i \in 1..Len(shapes) :
                        shapes[i].type = "box" /\ shapes[i].thickness < THIN_MM
                  THEN "bracket"
                  ELSE "housing"
        ELSE "generic"

\* part_type = config.get("drawing_plan", {}).get("part_type") or classify(config)
ResolvePartType(config) ==
    IF config.part_type # "" THEN config.part_type ELSE classify_part_type(config)

\* An entry of drawing_plan.dim_intents
dim_intent(id, view, required, priority) ==
    [id |-> id, view |-> view, required |-> required, priority |-> priority]

SCHEMA_VERSION == "0.1"

AllViews == {"front", "top", "right", "iso"}

\* A template in which the OD entry is written twice
FlangeIntents_repeated ==
    <<dim_intent("OD", "front", TRUE, 100),
      dim_intent("ID", "front", TRUE, 95),
      dim_intent("OD", "top", TRUE, 90),
      dim_intent("THK", "right", TRUE, 75)>>

\* configs/templates/flange.toml
FlangeIntents ==
    <<dim_intent("OD", "front", TRUE, 100),
      dim_intent("ID", "front", TRUE, 95),
      dim_intent("PCD", "front", TRUE, 90),
      dim_intent("BOLT_DIA", "front", TRUE, 85),
      dim_intent("BOLT_COUNT", "notes", TRUE, 80),
      dim_intent("THK", "right", TRUE, 75),
      dim_intent("FILLET", "right", FALSE, 50),
      dim_intent("CHAMFER", "right", FALSE, 40)>>

Template(views, dim_intents, datums, notes) ==
    [views |-> views, dim_intents |-> dim_intents, datums |-> datums,
     notes |-> notes]

\* A family without a template file contributes nothing
NoTemplate == Template({}, <<>>, 0, 0)

load_template(part_type) ==
    IF part_type = "flange" THEN Template(AllViews, FlangeIntents, 2, 4)
    ELSE NoTemplate

\* The values a field gets when neither the config nor the template gives it
DEFAULT_VIEW == "front"

HardDefault(id) == dim_intent(id, DEFAULT_VIEW, FALSE, 50)

\* A caller entry gives the id and any of view (or "") and priority (or 0);
\* a field the caller gives replaces the one below it
Overlay_template_wins(base, c) ==
    [base EXCEPT !.view = IF base.view = "" THEN c.view ELSE @,
                 !.priority = IF base.priority = 0 THEN c.priority ELSE @]

Overlay(base, c) ==
    [base EXCEPT !.view = IF c.view # "" THEN c.view ELSE @,
                 !.priority = IF c.priority # 0 THEN c.priority ELSE @]

\* Position of the entry with this id, 0 when there is none
IntentIndex(intents, id) ==
    IF \E i \in 1..Len(intents) : intents[i].id = id
    THEN CHOOSE i \in 1..Len(intents) :
            intents[i].id = id /\ \A j \in 1..(i - 1) : intents[j].id # id
    ELSE 0

\* The caller's entries laid over the template's, entry by id: one with the id
\* of an entry already there overlays it, one with a new id is added
RECURSIVE merge_intents(_, _)
merge_intents(intents, caller) ==
    IF caller = <<>> THEN intents
    ELSE LET c == Head(caller)
             k == IntentIndex(intents, c.id)
         IN  merge_intents(
                 IF k = 0 THEN Append(intents, Overlay(HardDefault(c.id), c))
                 ELSE [intents EXCEPT ![k] = Overlay(@, c)],
                 Tail(caller))

\* A drawing_plan; "" , {} , <<>> and 0 stand for a key that is not there
Plan(schema_version, part_type, views, dim_intents, datums, scale, notes, unknown) ==
    [schema_version |-> schema_version, part_type |-> part_type, views |-> views,
     dim_intents |-> dim_intents, datums |-> datums, scale |-> scale,
     notes |-> notes, unknown |-> unknown]

EmptyPlan == Plan("", "", {}, <<>>, 0, <<>>, 0, {})

\* scale.min and scale.max in tenths
DEFAULT_SCALE == <<4, 25>>

\* The template's values ahead of the config's
merge_plan_template_first(config, template, part_type) ==
    Plan(SCHEMA_VERSION,
         part_type,
         IF template.views # {} THEN template.views
         ELSE IF config.views # {} THEN config.views
         ELSE AllViews,
         IF template.dim_intents # <<>> THEN template.dim_intents
         ELSE merge_intents(<<>>, config.dim_intents),
         template.datums,
         DEFAULT_SCALE,
         template.notes,
         config.unknown)

\* config values > template values > defaults
merge_plan(config, template, part_type) ==
    Plan(SCHEMA_VERSION,
         part_type,
         IF config.views # {} THEN config.views
         ELSE IF template.views # {} THEN template.views
         ELSE AllViews,
         merge_intents(template.dim_intents, config.dim_intents),
         template.datums,
         DEFAULT_SCALE,
         template.notes,
         config.unknown)

--------------------------------------------------------------------------
(***************************************************************************)
(* Plan validator (plan_validator.py): the checks V1 to V10                *)
(***************************************************************************)

KNOWN_PART_TYPES == {"flange", "shaft", "bracket", "housing", "assembly", "generic"}

\* The ids a family requires: the required entries of its template
RequiredIds(part_type) ==
    LET t == load_template(part_type).dim_intents
    IN  {t[i].id : i \in {j \in 1..Len(t) : t[j].required}}

Finding(check, ref) == [check |-> check, ref |-> ref]

\* One finding when the condition holds
When(cond, check, ref) == IF cond THEN <<Finding(check, ref)>> ELSE <<>>

\* The flattening of a sequence of sequences
RECURSIVE Flatten(_)
Flatten(ss) == IF ss = <<>> THEN <<>> ELSE Head(ss) \o Flatten(Tail(ss))

\* V4: every id the family requires is among dim_intents
MissingRequired(plan, part_type) ==
    {id \in RequiredIds(part_type) :
        \A i \in 1..Len(plan.dim_intents) : plan.dim_intents[i].id # id}

\* V10: one finding for every entry whose id an earlier entry has
DuplicateIds_adjacent(intents) ==
    Flatten([i \in 1..Len(intents) |->
        When(i > 1 /\ intents[Max(i - 1, 1)].id = intents[i].id,
             "V10", intents[i].id)])

DuplicateIds(intents) ==
    Flatten([i \in 1..Len(intents) |->
        When(\E j \in 1..(i - 1) : intents[j].id = intents[i].id,
             "V10", intents[i].id)])

\* V5: the view of every entry is enabled, "notes" excepted
StrayViews(plan) ==
    Flatten([i \in 1..Len(plan.dim_intents) |->
        When(plan.dim_intents[i].view # "notes"
                /\ plan.dim_intents[i].view \notin plan.views,
             "V5", plan.dim_intents[i].id)])

validate_plan_strict(plan, part_type) ==
    IF plan.views = {} /\ plan.dim_intents = <<>>
    THEN [raised |-> "KeyError"]
    ELSE [valid |-> TRUE, errors |-> <<>>, warnings |-> <<>>]

validate_plan(plan, part_type) ==
    LET errors ==
            When(plan.schema_version # SCHEMA_VERSION, "V1", plan.schema_version)
            \o When(part_type \notin KNOWN_PART_TYPES, "V2", part_type)
            \o When(plan.views = {} \/ ~(plan.views \subseteq AllViews), "V3", "views")
            \o When(MissingRequired(plan, part_type) # {}, "V4", part_type)
            \o When(plan.scale # <<>> /\ plan.scale[1] > plan.scale[2], "V7", "scale")
            \o DuplicateIds(plan.dim_intents)
        warnings ==
            StrayViews(plan)
            \o When(plan.datums < 1, "V6", "datums")
            \o When(plan.notes = 0, "V8", "notes")
            \o When(plan.unknown # {}, "V9", "key")
    IN  [valid |-> errors = <<>>, errors |-> errors, warnings |-> warnings]

--------------------------------------------------------------------------
(* The compiler and the validator as a state machine *)

MaxShapes == 3

MaxCallerIntents == 2

MaxPlanIntents == 3

ShapeChoices == {Shape("cylinder", 0), Shape("box", 10), Shape("box", 30)}

\* "cut" is the operation that cuts a cavity
OperationChoices == {{}, {"hole"}, {"circular_pattern"}, {"fillet"}, {"hole", "cut"}}

\* The part_type a caller may pin: none, a family, a name no family has
PinChoices == {"", "flange", "gizmo"}

\* Entries a caller writes: OD with another view, OD with another priority,
\* and a dimension no template has
CallerIntentChoices ==
    {[id |-> "OD", view |-> "top", priority |-> 0],
     [id |-> "OD", view |-> "", priority |-> 60],
     [id |-> "SLOT", view |-> "right", priority |-> 0]}

Config(shapes, operations, assembly, part_type, views, dim_intents, unknown) ==
    [shapes |-> shapes, operations |-> operations, assembly |-> assembly,
     part_type |-> part_type, views |-> views, dim_intents |-> dim_intents,
     unknown |-> unknown]

NoConfig == Config(<<>>, {}, "absent", "", {}, <<>>, {})

\* Every description with a pin or without, and flange and bracket descriptions
\* with every caller section
Configs ==
    {Config(s, o, a, p, {}, <<>>, {}) :
        s \in SeqsUpTo(ShapeChoices, MaxShapes), o \in OperationChoices,
        a \in AssemblyMarkers, p \in PinChoices}
    \cup
    {Config(s, {"hole"}, "absent", p, v, d, u) :
        s \in {<<Shape("cylinder", 0)>>, <<Shape("box", 10)>>},
        p \in PinChoices, v \in {{}, {"front", "top"}},
        d \in SeqsUpTo(CallerIntentChoices, MaxCallerIntents),
        u \in {{}, {"colour"}}}

\* Plans written by hand and given to the validator as they are
HandIntentChoices ==
    {dim_intent("OD", "front", TRUE, 100), dim_intent("OD", "top", TRUE, 90),
     dim_intent("THK", "right", TRUE, 75)}

HandPlans ==
    {Plan(sv, pt, v, d, n, sc, n, u) :
        sv \in {"", SCHEMA_VERSION}, pt \in {"", "generic"},
        v \in {{}, AllViews}, d \in SeqsUpTo(HandIntentChoices, MaxPlanIntents),
        n \in {0, 1}, sc \in {<<>>, <<4, 25>>, <<25, 4>>},
        u \in {{}, {"veiws"}}}

NoValidation == [valid |-> FALSE, errors |-> <<>>, warnings |-> <<>>]

IcIdle ==
    /\ icConfig = NoConfig
    /\ icPc = "idle"
    /\ icPartType = ""
    /\ icPlan = EmptyPlan
    /\ icResult = NoValidation

\* Either a config is compiled, or a plan written by hand is validated
IcInit ==
    /\ icPartType = ""
    /\ icResult = NoValidation
    /\ \/ icConfig \in Configs /\ icPc = "start" /\ icPlan = EmptyPlan
       \/ icConfig = NoConfig /\ icPc = "plan" /\ icPlan \in HandPlans

\* main(): the part_type pinned in the config, or else the classification
IcClassify ==
    /\ icPc = "start"
    /\ icPartType' = ResolvePartType(icConfig)
    /\ icPc' = "classified"
    /\ UNCHANGED <<icConfig, icPlan, icResult>>
    /\ UNCHANGED notIc

\* main(): load_template, merge_plan, config["drawing_plan"] = plan
IcMerge ==
    /\ icPc = "classified"
    /\ icPlan' = merge_plan(icConfig, load_template(icPartType), icPartType)
    /\ icPc' = "plan"
    /\ UNCHANGED <<icConfig, icPartType, icResult>>
    /\ UNCHANGED notIc

\* plan_validator.py: validate_plan(plan, plan's part_type)
IcValidate ==
    /\ icPc = "plan"
    /\ icResult' = validate_plan(icPlan, icPlan.part_type)
    /\ icPc' = "validated"
    /\ UNCHANGED <<icConfig, icPartType, icPlan>>
    /\ UNCHANGED notIc

--------------------------------------------------------------------------
(* A single rule applied to a document, and again to its own output *)

MaxHoles == 4

MaxApplications == 2

\* Bolt holes of 13.5 mm in a row across the front view
HoleRow(k) == [i \in 1..k |-> Circle((40 + 25 * i) * MM, 189 * MM, 6750)]

\* The bore, and two holes drawn in the top view
Bore == Circle(100 * MM, 189 * MM, 30 * MM)

TopHoles == <<Circle(65 * MM, 60 * MM, 6750), Circle(90 * MM, 60 * MM, 6750)>>

CircleChoices ==
    {HoleRow(k) : k \in 0..MaxHoles}
    \cup {HoleRow(k) \o <<Bore>> : k \in 0..MaxHoles}
    \cup {HoleRow(2) \o TopHoles}

\* No notes, notes that leave room above the title block, notes whose next
\* line is the last one above it, and notes that leave no room
NoteSetChoices ==
    {<<>>,
     <<Text(<<30>>, NOTES_START_X, 230 * MM, FALSE)>>,
     <<Text(<<5>>, NOTES_START_X, 226 * MM, TRUE),
       Text(<<220>>, NOTES_START_X, 230 * MM, FALSE)>>,
     <<Text(<<30>>, NOTES_START_X, TITLEBLOCK_Y - LINE_H, FALSE)>>,
     <<Text(<<30>>, NOTES_START_X, TITLEBLOCK_Y - LINE_H + 1, FALSE)>>,
     <<Text(<<30>>, NOTES_START_X, 245 * MM, FALSE)>>}

RuleDocs ==
    {[FlangeDoc EXCEPT !.circles = c, !.notes = n] :
        c \in CircleChoices, n \in NoteSetChoices}
    \cup EngineDocs

\* The count of a rule's result; audit_gdt returns a record of counts
CountOf(r, result) == IF r = 6 THEN result.rounded ELSE result

RuIdle ==
    /\ ruRule = 0
    /\ ruPlan = NoEnginePlan
    /\ ruTrees = <<>>
    /\ ruCounts = <<>>

RuInit ==
    /\ ruRule \in Rules
    /\ ruPlan \in EnginePlans
    /\ \E doc \in RuleDocs : ruTrees = <<doc>>
    /\ ruCounts = <<>>

\* The rule is applied to the document as the last application left it
RuApply ==
    /\ ruRule \in Rules
    /\ Len(ruCounts) < MaxApplications
    /\ LET out == ApplyRule(ruRule, ruTrees[Len(ruTrees)], ruPlan)
       IN  /\ ruTrees' = Append(ruTrees, out.tree)
           /\ ruCounts' = Append(ruCounts, CountOf(ruRule, out.result))
    /\ UNCHANGED <<ruRule, ruPlan>>
    /\ UNCHANGED notRu

--------------------------------------------------------------------------
(***************************************************************************)
(* Script runner (lib/runner.js): runScript, its child process and timers  *)
(***************************************************************************)

TIMEOUT_MS == 120000

KILL_DELAY_MS == 5000

\* The clock advances in steps of the shorter timer
TICK_MS == KILL_DELAY_MS

MaxTicks == 26

\* opts.timeout: not given, or 10 s
TimeoutChoices == {NA, Some(2 * KILL_DELAY_MS)}

\* What the child has written to stdout when it ends: no JSON object, a JSON
\* object with success true, one with success false, and either of them after
\* other output that has a brace in it
Stdouts == {"none", "json_ok", "json_fail", "braces_json_ok", "braces_json_fail"}

\* stdout.match(/\{[\s\S]*\}\s*$/) and JSON.parse of the match: the match
\* begins at the first brace of stdout, so it parses only when the object is
\* all there is from that brace on
Parsed(stdout) == IF stdout \in {"json_ok", "json_fail"} THEN stdout ELSE "none"

Proc(state, code, signal, stdout, stubborn, pending) ==
    [state |-> state, exitCode |-> code, signalCode |-> signal,
     stdout |-> stdout, stubborn |-> stubborn, pending |-> pending]

NoProc == Proc("none", NA, "", "none", FALSE, {})

Timer(state, due) == [state |-> state, due |-> due]

NoTimer == Timer("none", 0)

Promise(state, with) == [state |-> state, with |-> with]

\* resolve and reject settle a promise once
Settle(p, state, with) == IF p.state = "pending" THEN Promise(state, with) ELSE p

\* clearTimeout
Clear(t) == IF t.state = "armed" THEN [t EXCEPT !.state = "cleared"] ELSE t

\* proc.exitCode === null && proc.signalCode === null
Alive(p) == p.exitCode = NA /\ p.signalCode = ""

RnIdle ==
    /\ rnOpts = NA
    /\ rnNow = 0
    /\ rnProc = NoProc
    /\ rnTimer = NoTimer
    /\ rnHard = NoTimer
    /\ rnTimeoutError = FALSE
    /\ rnKills = <<>>
    /\ rnPromise = Promise("none", "")

\* runScript has returned its promise: the child is spawned, stdin written,
\* the timer set.  The child may be one that does not end on SIGTERM.
RnInit ==
    /\ rnOpts \in TimeoutChoices
    /\ rnNow = 0
    /\ \E stubborn \in BOOLEAN : rnProc = Proc("spawning", NA, "", "none", stubborn, {})
    /\ rnTimer = Timer("armed", IF rnOpts = NA THEN TIMEOUT_MS ELSE rnOpts[1])
    /\ rnHard = NoTimer
    /\ rnTimeoutError = FALSE
    /\ rnKills = <<>>
    /\ rnPromise = Promise("pending", "")

TimerDue(t) == t.state = "armed" /\ rnNow >= t.due

\* Time passes, once spawn() has succeeded or failed; a timer that is due
\* runs first
RnTick ==
    /\ rnPromise.state # "none"
    /\ rnProc.state # "spawning"
    /\ rnNow < MaxTicks * TICK_MS
    /\ ~TimerDue(rnTimer) /\ ~TimerDue(rnHard)
    /\ rnNow' = rnNow + TICK_MS
    /\ UNCHANGED <<rnOpts, rnProc, rnTimer, rnHard, rnTimeoutError, rnKills, rnPromise>>
    /\ UNCHANGED notRn

\* The child is running
RnSpawned ==
    /\ rnProc.state = "spawning"
    /\ rnProc' = [rnProc EXCEPT !.state = "running"]
    /\ UNCHANGED <<rnOpts, rnNow, rnTimer, rnHard, rnTimeoutError, rnKills, rnPromise>>
    /\ UNCHANGED notRn

\* proc.on('error'): the child could not be spawned
RnSpawnError ==
    /\ rnProc.state = "spawning"
    /\ rnProc' = [rnProc EXCEPT !.state = "failed"]
    /\ rnTimer' = Clear(rnTimer)
    /\ rnHard' = Clear(rnHard)
    /\ rnPromise' = Settle(rnPromise, "rejected", "spawn")
    /\ UNCHANGED <<rnOpts, rnNow, rnTimeoutError, rnKills>>
    /\ UNCHANGED notRn

\* The child ends by itself with an exit status
RnProcExit ==
    /\ rnProc.state = "running"
    /\ \E code \in {0, 1}, out \in Stdouts :
          rnProc' = [rnProc EXCEPT !.state = "ended", !.exitCode = Some(code),
                                   !.stdout = out]
    /\ UNCHANGED <<rnOpts, rnNow, rnTimer, rnHard, rnTimeoutError, rnKills, rnPromise>>
    /\ UNCHANGED notRn

\* The child ends by a signal it was sent: by SIGKILL always, by SIGTERM
\* unless it handles it
RnProcDies ==
    /\ rnProc.state = "running"
    /\ "SIGKILL" \in rnProc.pending \/ ("SIGTERM" \in rnProc.pending /\ ~rnProc.stubborn)
    /\ \E out \in Stdouts :
          rnProc' = [rnProc EXCEPT
                        !.state = "ended",
                        !.signalCode = IF "SIGKILL" \in rnProc.pending
                                       THEN "SIGKILL" ELSE "SIGTERM",
                        !.stdout = out]
    /\ UNCHANGED <<rnOpts, rnNow, rnTimer, rnHard, rnTimeoutError, rnKills, rnPromise>>
    /\ UNCHANGED notRn

\* proc.kill(signal): the signal reaches a child that has not ended
Kill(p, sig) ==
    IF p.state \in {"spawning", "running"} THEN [p EXCEPT !.pending = @ \cup {sig}] ELSE p

\* The timeout callback: timeoutError is set, SIGTERM sent, hardKillTimer set
RnTimeout ==
    /\ TimerDue(rnTimer)
    /\ rnTimer' = [rnTimer EXCEPT !.state = "fired"]
    /\ rnTimeoutError' = TRUE
    /\ rnProc' = Kill(rnProc, "SIGTERM")
    /\ rnKills' = Append(rnKills, [sig |-> "SIGTERM", at |-> rnNow])
    /\ rnHard' = Timer("armed", rnNow + KILL_DELAY_MS)
    /\ UNCHANGED <<rnOpts, rnNow, rnPromise>>
    /\ UNCHANGED notRn

\* The hardKillTimer callback: SIGKILL if the child has not ended
RnHardKill ==
    /\ TimerDue(rnHard)
    /\ rnHard' = [rnHard EXCEPT !.state = "fired"]
    /\ IF Alive(rnProc)
       THEN /\ rnProc' = Kill(rnProc, "SIGKILL")
            /\ rnKills' = Append(rnKills, [sig |-> "SIGKILL", at |-> rnNow])
       ELSE UNCHANGED <<rnProc, rnKills>>
    /\ UNCHANGED <<rnOpts, rnNow, rnTimer, rnTimeoutError, rnPromise>>
    /\ UNCHANGED notRn

\* The close handler resolving with whatever object the script printed
CloseOutcome_resolves_errors(p) ==
    IF Parsed(p.stdout) # "none" THEN Promise("resolved", "parsed")
    ELSE IF p.exitCode # Some(0) THEN Promise("rejected", "exit")
    ELSE Promise("rejected", "nojson")

\* What the close handler settles the promise with when there was no timeout:
\* "script" is the rejection with parsed.error, "exit" the one with the exit
\* code and stderr
CloseOutcome(p) ==
    IF Parsed(p.stdout) = "json_fail" /\ p.exitCode # Some(0)
    THEN Promise("rejected", "script")
    ELSE IF Parsed(p.stdout) # "none" THEN Promise("resolved", "parsed")
    ELSE IF p.exitCode # Some(0) THEN Promise("rejected", "exit")
    ELSE Promise("rejected", "nojson")

\* The close handler with the result of the child taken whatever happened
RnClose_ignores_timeout ==
    /\ rnProc.state = "ended"
    /\ rnProc' = [rnProc EXCEPT !.state = "closed"]
    /\ rnTimer' = Clear(rnTimer)
    /\ rnHard' = Clear(rnHard)
    /\ rnPromise' = Settle(rnPromise, CloseOutcome(rnProc).state, CloseOutcome(rnProc).with)
    /\ UNCHANGED <<rnOpts, rnNow, rnTimeoutError, rnKills>>
    /\ UNCHANGED notRn

\* proc.on('close'): the timers are cleared; the promise is rejected with
\* timeoutError when it is set, and settled by stdout and exit code otherwise
RnClose ==
    /\ rnProc.state = "ended"
    /\ rnProc' = [rnProc EXCEPT !.state = "closed"]
    /\ rnTimer' = Clear(rnTimer)
    /\ rnHard' = Clear(rnHard)
    /\ rnPromise' =
          IF rnTimeoutError THEN Settle(rnPromise, "rejected", "timeout")
          ELSE Settle(rnPromise, CloseOutcome(rnProc).state, CloseOutcome(rnProc).with)
    /\ UNCHANGED <<rnOpts, rnNow, rnTimeoutError, rnKills>>
    /\ UNCHANGED notRn

(***************************************************************************)
(* The viewer's dimension editing (public/js/viewer.js): an edit of a      *)
(* dimension on the drawing is sent to the server as update_dimension; the *)
(* server's dimension_updated reply is entered in the undo/redo history;   *)
(* Ctrl+Z and Ctrl+Y walk the history and send update_dimension again.     *)
(* One dimension of the plan is followed, over an open connection.         *)
(***************************************************************************)

\* The history length up to which the user goes on editing, most undo/redo
\* keys pressed, most update_dimension messages waiting for the server, most
\* server messages waiting for the viewer when the server handles another
MaxEntries == 21
MaxKeys == 2
MaxInFlight == 2
MaxBacklog == 1

\* The dimension edited and the values it is given
EDIT_DIM_ID == "OD"
EditValues == {10, 12}

\* editor.value: empty, or a configuration
EditorChoices == {"", "toml"}

\* The update_dimension message of the three senders; sender is not on the
\* wire (the viewer sends no history_op), it records which handler sent it
UpdateMsg(value, config_toml, sender) ==
    [action |-> "update_dimension", dim_id |-> EDIT_DIM_ID, value_mm |-> value,
     config_toml |-> config_toml, sender |-> sender]

\* The server's messages: dimension_updated, drawing_result, error
ServerMsg(type, old, new, sender) ==
    [type |-> type, dim_id |-> EDIT_DIM_ID, old_value |-> old, new_value |-> new,
     sender |-> sender]

\* An entry of dimEditHistory
HistoryEntry(dimId, oldValue, newValue) ==
    [dimId |-> dimId, oldValue |-> oldValue, newValue |-> newValue]

\* What the user saw or did: an edit applied (old and new value), or an undo
\* or redo key with the value it sent, if it sent one
Event(what, vals) == [what |-> what, vals |-> vals]

\* The last three of them
Remember(recent, e) ==
    LET all == Append(recent, e)
    IN  IF Len(all) > 3 THEN SubSeq(all, Len(all) - 2, Len(all)) ELSE all

\* addEditHistory: entries after the position are dropped, the entry is
\* pushed and the position moves to it (positions count from 0)
addEditHistory(history, index, entry) ==
    LET kept == IF index < Len(history) - 1 THEN SubSeq(history, 1, index + 1)
                ELSE history
        all == Append(kept, entry)
    IN  [history |-> all, index |-> Len(all) - 1]

VwIdle ==
    /\ vwHistory = <<>>
    /\ vwIndex = -1
    /\ vwOutbox = <<>>
    /\ vwInbox = <<>>
    /\ vwPlanValue = 0
    /\ vwShown = 0
    /\ vwEditor = ""
    /\ vwRecent = <<>>
    /\ vwKeys = 0

\* A drawing has been delivered: the history is empty (initDimEditing), the
\* drawing shows the plan's value
VwInit ==
    /\ vwHistory = <<>>
    /\ vwIndex = -1
    /\ vwOutbox = <<>>
    /\ vwInbox = <<>>
    /\ vwPlanValue \in EditValues
    /\ vwShown = vwPlanValue
    /\ vwEditor \in EditorChoices
    /\ vwRecent = <<>>
    /\ vwKeys = 0

\* submitDimEdit: a value other than the one shown is sent to the server
VwSubmit ==
    /\ Len(vwHistory) < MaxEntries
    /\ Len(vwOutbox) < MaxInFlight
    /\ \E v \in EditValues :
         /\ v # vwShown
         /\ vwOutbox' = Append(vwOutbox, UpdateMsg(v, vwEditor, "edit"))
    /\ UNCHANGED <<vwHistory, vwIndex, vwInbox, vwPlanValue, vwShown, vwEditor,
                   vwRecent, vwKeys>>
    /\ UNCHANGED notVw

\* handleUpdateDimension for the oldest message: refused or failed (error),
\* or the plan is updated and dimension_updated sent; with a configuration in
\* the message the drawing is regenerated, which ends in drawing_result or
\* in error
VwServerUpdate ==
    /\ vwOutbox # <<>>
    /\ Len(vwInbox) <= MaxBacklog
    /\ LET msg == Head(vwOutbox)
           updated == ServerMsg("dimension_updated", vwPlanValue, msg.value_mm,
                                msg.sender)
       IN  \E ok \in BOOLEAN, drawn \in BOOLEAN :
             IF ~ok
             THEN /\ drawn
                  /\ vwInbox' = Append(vwInbox, ServerMsg("error", 0, 0, msg.sender))
                  /\ UNCHANGED vwPlanValue
             ELSE /\ vwPlanValue' = msg.value_mm
                  /\ vwInbox' =
                       IF msg.config_toml = "" THEN Append(vwInbox, updated)
                       ELSE IF drawn
                       THEN vwInbox \o <<updated,
                                ServerMsg("drawing_result", 0, msg.value_mm, msg.sender)>>
                       ELSE vwInbox \o <<updated,
                                ServerMsg("error", 0, 0, msg.sender)>>
                  /\ (msg.config_toml = "" => drawn)
    /\ vwOutbox' = Tail(vwOutbox)
    /\ UNCHANGED <<vwHistory, vwIndex, vwShown, vwEditor, vwRecent, vwKeys>>
    /\ UNCHANGED notVw

\* ws.onmessage for the oldest server message: dimension_updated is entered
\* in the history, drawing_result shows the drawing and starts the history
\* anew (initDimEditing), error changes neither
VwReceive ==
    /\ vwInbox # <<>>
    /\ LET msg == Head(vwInbox)
           added == addEditHistory(vwHistory, vwIndex,
                        HistoryEntry(msg.dim_id, msg.old_value, msg.new_value))
       IN  CASE msg.type = "dimension_updated" ->
                  /\ vwHistory' = added.history
                  /\ vwIndex' = added.index
                  /\ vwRecent' =
                       IF msg.sender = "edit"
                       THEN Remember(vwRecent,
                                Event("applied", <<msg.old_value, msg.new_value>>))
                       ELSE vwRecent
                  /\ UNCHANGED vwShown
              [] msg.type = "drawing_result" ->
                  /\ vwHistory' = <<>>
                  /\ vwIndex' = -1
                  /\ vwShown' = msg.new_value
                  /\ UNCHANGED vwRecent
              [] OTHER ->
                  UNCHANGED <<vwHistory, vwIndex, vwShown, vwRecent>>
    /\ vwInbox' = Tail(vwInbox)
    /\ UNCHANGED <<vwOutbox, vwPlanValue, vwEditor, vwKeys>>
    /\ UNCHANGED notVw

\* undoDimEdit (Ctrl+Z): nothing before the first entry; otherwise the
\* position moves back and the entry's old value is sent
VwUndo ==
    /\ vwKeys < MaxKeys
    /\ Len(vwOutbox) < MaxInFlight
    /\ vwKeys' = vwKeys + 1
    /\ IF vwIndex < 0
       THEN /\ vwRecent' = Remember(vwRecent, Event("undo", <<>>))
            /\ UNCHANGED <<vwIndex, vwOutbox>>
       ELSE LET entry == vwHistory[vwIndex + 1]
            IN  /\ vwIndex' = vwIndex - 1
                /\ vwOutbox' = Append(vwOutbox,
                                   UpdateMsg(entry.oldValue, vwEditor, "undo"))
                /\ vwRecent' = Remember(vwRecent, Event("undo", <<entry.oldValue>>))
    /\ UNCHANGED <<vwHistory, vwInbox, vwPlanValue, vwShown, vwEditor>>
    /\ UNCHANGED notVw

\* redoDimEdit (Ctrl+Y): nothing at the last entry; otherwise the position
\* moves forward and the entry's new value is sent
VwRedo ==
    /\ vwKeys < MaxKeys
    /\ Len(vwOutbox) < MaxInFlight
    /\ vwKeys' = vwKeys + 1
    /\ IF vwIndex >= Len(vwHistory) - 1
       THEN /\ vwRecent' = Remember(vwRecent, Event("redo", <<>>))
            /\ UNCHANGED <<vwIndex, vwOutbox>>
       ELSE LET entry == vwHistory[vwIndex + 2]
            IN  /\ vwIndex' = vwIndex + 1
                /\ vwOutbox' = Append(vwOutbox,
                                   UpdateMsg(entry.newValue, vwEditor, "redo"))
                /\ vwRecent' = Remember(vwRecent, Event("redo", <<entry.newValue>>))
    /\ UNCHANGED <<vwHistory, vwInbox, vwPlanValue, vwShown, vwEditor>>
    /\ UNCHANGED notVw

(***************************************************************************)
(* Design mode (scripts/design-reviewer.js designFromText and              *)
(* designFromTextStreaming, which differ only in how the first response is *)
(* fetched) and what its callers, fcad design and the server's             *)
(* handleDesign, do with the result.                                       *)
(***************************************************************************)

\* Most parts in a generated configuration
MaxParts == 2

\* A part of a configuration: whether it has an id, and how many shapes
Part(id, shapes) == [id |-> id, shapes |-> shapes]

PartChoices == {Part(TRUE, 1), Part(FALSE, 1), Part(TRUE, 0)}

PartLists == UNION {[1..n -> PartChoices] : n \in 0..MaxParts}

\* config.assembly: none, one without parts, one whose parts have a ref, one
\* with a part that has none
AssemblyChoices == {"absent", "empty", "ok", "noref"}

\* The text of a ```toml block: whether smol-toml parses it and, if so,
\* what the configuration holds
TomlText(parses, name, parts, assembly) ==
    [parses |-> parses, name |-> name, parts |-> parts, assembly |-> assembly]

\* The blocks a response may hold
TomlTexts ==
    {TomlText(FALSE, FALSE, <<>>, "absent")}
    \cup {TomlText(TRUE, n, ps, a) :
            n \in BOOLEAN, ps \in PartLists, a \in {"absent", "ok"}}
    \cup {TomlText(TRUE, TRUE, <<Part(TRUE, 1)>>, a) : a \in AssemblyChoices}

\* extractTomlFromResponse: the last ```toml block of the response, or null
Blocks == {NA} \cup {Some(t) : t \in TomlTexts}

\* validateTomlStructure: valid when the text parses, has a name, has at
\* least one part, every part has an id and a shape, and an assembly, if
\* there is one, has parts that all have a ref
validateTomlStructure(tomlStr) ==
    [valid |->
        /\ tomlStr.parses
        /\ tomlStr.name
        /\ Len(tomlStr.parts) > 0
        /\ \A i \in 1..Len(tomlStr.parts) :
              tomlStr.parts[i].id /\ tomlStr.parts[i].shapes > 0
        /\ tomlStr.assembly \in {"absent", "ok"}]

DsIdle ==
    /\ dsPc = "idle"
    /\ dsToml = NA
    /\ dsResult = NA
    /\ dsOutcome = ""

DsInit ==
    /\ dsPc = "first_call"
    /\ dsToml = NA
    /\ dsResult = NA
    /\ dsOutcome = ""

\* The first Gemini call ends: it throws, or its response is searched for a
\* TOML block; an invalid block leads to the retry, anything else to the
\* return
DsFirstResponse ==
    /\ dsPc = "first_call"
    /\ \/ /\ dsPc' = "threw"
          /\ UNCHANGED <<dsToml, dsResult>>
       \/ \E toml \in Blocks :
            /\ dsToml' = toml
            /\ IF toml # NA /\ ~validateTomlStructure(toml[1]).valid
               THEN dsPc' = "retry_call" /\ dsResult' = dsResult
               ELSE dsPc' = "returned" /\ dsResult' = Some([toml |-> toml])
    /\ UNCHANGED dsOutcome
    /\ UNCHANGED notDs

\* The retry ends: it throws, or the block of its response is returned
DsRetryResponse ==
    /\ dsPc = "retry_call"
    /\ \/ /\ dsPc' = "threw"
          /\ UNCHANGED <<dsToml, dsResult>>
       \/ \E toml \in Blocks :
            /\ dsToml' = toml
            /\ dsPc' = "returned"
            /\ dsResult' = Some([toml |-> toml])
    /\ UNCHANGED dsOutcome
    /\ UNCHANGED notDs

\* The caller (cmdDesign, handleDesign): without a TOML it reports the
\* failure; with one it goes on to save or build it; an exception is
\* reported as an error
DsCaller ==
    /\ dsPc \in {"returned", "threw"}
    /\ dsOutcome' =
         IF dsPc = "threw" THEN "error"
         ELSE IF dsResult[1].toml = NA THEN "failed"
         ELSE "design_result"
    /\ dsPc' = "done"
    /\ UNCHANGED <<dsToml, dsResult>>
    /\ UNCHANGED notDs

(***************************************************************************)
(* deepMerge (lib/config-loader.js), which fcad draw --override applies to *)
(* the loaded config.  A value is a number, null, an array or an object;   *)
(* an object maps some of the keys to values.  Keys are ordinary property  *)
(* names, enumerated in the order Object.keys gives them.                  *)
(***************************************************************************)

MAX_MERGE_DEPTH == 20

Number(n) == [kind |-> "number", n |-> n, fields |-> <<>>]
Null == [kind |-> "null", n |-> 0, fields |-> <<>>]
Arr(n) == [kind |-> "array", n |-> n, fields |-> <<>>]
Obj(fields) == [kind |-> "object", n |-> 0, fields |-> fields]

\* typeof v === 'object' && v !== null && !Array.isArray(v)
IsPlainObject(v) == v.kind = "object"

MergeKeys == {"a", "b"}
KeyOrder == <<"a", "b">>

\* Object.keys(obj), in order
ObjectKeys(obj) == SelectSeq(KeyOrder, LAMBDA k : k \in DOMAIN obj.fields)

\* Objects whose values come from vals
ObjectsOver(vals) == {Obj(f) : f \in UNION {[S -> vals] : S \in SUBSET MergeKeys}}

\* The values of a base config and of an override, told apart by their
\* numbers and array contents
BaseLeaves == {Number(1), Null, Arr(1)}
OverrideLeaves == {Number(2), Null, Arr(2)}
BaseConfigs == ObjectsOver(BaseLeaves \cup ObjectsOver(BaseLeaves))
OverrideConfigs == ObjectsOver(OverrideLeaves \cup ObjectsOver(OverrideLeaves))

\* An object nested n deep under the first key, ending in a leaf
RECURSIVE Chain(_, _)
Chain(n, leaf) == IF n = 0 THEN leaf ELSE Obj([k \in {KeyOrder[1]} |-> Chain(n - 1, leaf)])

\* Configs nested as deep as the merge goes, and one level deeper
DeepPairs ==
    {<<Chain(MAX_MERGE_DEPTH + d, Number(1)), Chain(MAX_MERGE_DEPTH + d, Number(2))>> : d \in {1, 2}}

\* base[key] = value
SetKey(base, key, value) ==
    Obj([k \in DOMAIN base.fields \cup {key} |->
            IF k = key THEN value ELSE base.fields[k]])

\* The outcome of a call: the base object as the call left it, and whether
\* the call threw 'Config merge too deep'
Merged(value, threw) == [value |-> value, threw |-> threw]

\* A merge where a key of the override always replaces the base's value
RECURSIVE deepMerge_shallow(_, _, _)
deepMerge_shallow(base, override, depth) ==
    LET keys == ObjectKeys(override)
    IN  IF keys = <<>> THEN Merged(base, FALSE)
        ELSE deepMerge_shallow(SetKey(base, Head(keys), override.fields[Head(keys)]),
                 Obj([k \in DOMAIN override.fields \ {Head(keys)} |-> override.fields[k]]),
                 depth)

\* deepMerge: the loop over Object.keys(override), from the i-th key on
RECURSIVE deepMerge(_, _, _)
RECURSIVE deepMergeFrom(_, _, _, _)
deepMergeFrom(base, override, depth, i) ==
    LET keys == ObjectKeys(override)
        key == keys[i]
    IN  IF i > Len(keys) THEN Merged(base, FALSE)
        ELSE IF /\ key \in DOMAIN base.fields
                /\ IsPlainObject(base.fields[key])
                /\ IsPlainObject(override.fields[key])
        THEN LET inner == deepMerge(base.fields[key], override.fields[key], depth + 1)
                 mutated == SetKey(base, key, inner.value)
             IN  IF inner.threw THEN Merged(mutated, TRUE)
                 ELSE deepMergeFrom(mutated, override, depth, i + 1)
        ELSE deepMergeFrom(SetKey(base, key, override.fields[key]), override, depth, i + 1)

deepMerge(base, override, depth) ==
    IF depth > MAX_MERGE_DEPTH THEN Merged(base, TRUE)
    ELSE deepMergeFrom(base, override, depth, 1)

DmIdle ==
    /\ dmBase = Null
    /\ dmOverride = Null
    /\ dmResult = NA

\* loadConfig has read the base config and the override
DmInit ==
    /\ \E pair \in (BaseConfigs \X OverrideConfigs) \cup DeepPairs :
         dmBase = pair[1] /\ dmOverride = pair[2]
    /\ dmResult = NA

\* deepMerge(config, overrideCfg)
DmMerge ==
    /\ dmResult = NA
    /\ dmResult' = Some(deepMerge(dmBase, dmOverride, 0))
    /\ UNCHANGED <<dmBase, dmOverride>>
    /\ UNCHANGED notDm

--------------------------------------------------------------------------
(* Specifications of the scorer and of the mandatory tier *)

InitScore == QaInit /\ TierIdle /\ PpIdle /\ DrawIdle /\ SrvIdle /\ IcIdle /\ RuIdle /\ RnIdle /\ VwIdle /\ DsIdle /\ DmIdle /\ SxIdle

NextScore == QaScore \/ QaRescoreNoPlan

SpecScore == InitScore /\ [][NextScore]_vars

InitTier == TierInit /\ QaIdle /\ PpIdle /\ DrawIdle /\ SrvIdle /\ IcIdle /\ RuIdle /\ RnIdle /\ VwIdle /\ DsIdle /\ DmIdle /\ SxIdle

NextTier == ApplyTier

SpecTier == InitTier /\ [][NextTier]_vars

InitEngine == PpInit /\ QaIdle /\ TierIdle /\ DrawIdle /\ SrvIdle /\ IcIdle /\ RuIdle /\ RnIdle /\ VwIdle /\ DsIdle /\ DmIdle /\ SxIdle

NextEngine ==
    \/ PpLoad
    \/ PpLoadFail
    \/ PpBeginRule
    \/ PpEndRule
    \/ PpRuleFails
    \/ PpWrite

SpecEngine == InitEngine /\ [][NextEngine]_vars

InitDraw == DrawInit /\ QaIdle /\ TierIdle /\ PpIdle /\ SrvIdle /\ IcIdle /\ RuIdle /\ RnIdle /\ VwIdle /\ DsIdle /\ DmIdle /\ SxIdle

NextDraw ==
    \/ DrawStart
    \/ DrawLoadConfig
    \/ DrawApplyOverride
    \/ DrawIntentCompile
    \/ DrawGenerate
    \/ DrawPersist
    \/ DrawSavePlan
    \/ DrawBeginQaBefore
    \/ DrawEndQaBefore
    \/ DrawBeginPostprocess
    \/ DrawEndPostprocess
    \/ DrawBeginQaAfter
    \/ DrawEndQaAfter
    \/ DrawFinish

SpecDraw == InitDraw /\ [][NextDraw]_vars

InitServer == SrvInit /\ QaIdle /\ TierIdle /\ PpIdle /\ DrawIdle /\ IcIdle /\ RuIdle /\ RnIdle /\ VwIdle /\ DsIdle /\ DmIdle /\ SxIdle

NextServer ==
    \/ OnDraw
    \/ DrawPrepare
    \/ DrawLoadPlan
    \/ DrawWritePlan
    \/ DrawDone
    \/ OnBuild
    \/ BuildDone
    \/ OnUpdateDimension
    \/ UpdateRead
    \/ UpdateBackup
    \/ UpdateWrite

SpecServer == InitServer /\ [][NextServer]_vars

\* The server with its waits coming to an end: mkdtemp, readFile and
\* writeFile return, execSync has a timeout of 15 s, and runScript settles
\* on the close or error event of the child, which its timers force
SpecServerLive ==
    /\ InitServer
    /\ [][NextServer]_vars
    /\ WF_vars(DrawPrepare)
    /\ WF_vars(DrawLoadPlan)
    /\ WF_vars(DrawWritePlan)
    /\ WF_vars(DrawDone)
    /\ WF_vars(BuildDone)

InitPlan == IcInit /\ QaIdle /\ TierIdle /\ PpIdle /\ DrawIdle /\ SrvIdle /\ RuIdle /\ RnIdle /\ VwIdle /\ DsIdle /\ DmIdle /\ SxIdle

NextPlan == IcClassify \/ IcMerge \/ IcValidate

SpecPlan == InitPlan /\ [][NextPlan]_vars

InitRule == RuInit /\ QaIdle /\ TierIdle /\ PpIdle /\ DrawIdle /\ SrvIdle /\ IcIdle /\ RnIdle /\ VwIdle /\ DsIdle /\ DmIdle /\ SxIdle

NextRule == RuApply

SpecRule == InitRule /\ [][NextRule]_vars

InitRunner ==
    RnInit /\ QaIdle /\ TierIdle /\ PpIdle /\ DrawIdle /\ SrvIdle /\ IcIdle /\ RuIdle /\ VwIdle
    /\ DsIdle /\ DmIdle /\ SxIdle

NextRunner ==
    \/ RnTick
    \/ RnSpawned
    \/ RnSpawnError
    \/ RnProcExit
    \/ RnProcDies
    \/ RnTimeout
    \/ RnHardKill
    \/ RnClose

\* Time passes, timers that are due run, a child that was sent a signal it
\* does not handle ends, and the close event of a child that has ended is
\* delivered.  Nothing makes the child end by itself.
SpecRunner ==
    /\ InitRunner
    /\ [][NextRunner]_vars
    /\ WF_vars(RnTick)
    /\ WF_vars(RnSpawned \/ RnSpawnError)
    /\ WF_vars(RnTimeout)
    /\ WF_vars(RnHardKill)
    /\ WF_vars(RnProcDies)
    /\ WF_vars(RnClose)

InitViewer == VwInit /\ QaIdle /\ TierIdle /\ PpIdle /\ DrawIdle /\ SrvIdle /\ IcIdle /\ RuIdle /\ RnIdle /\ DsIdle /\ DmIdle /\ SxIdle

NextViewer ==
    \/ VwSubmit
    \/ VwServerUpdate
    \/ VwReceive
    \/ VwUndo
    \/ VwRedo

SpecViewer == InitViewer /\ [][NextViewer]_vars

InitDesign == DsInit /\ QaIdle /\ TierIdle /\ PpIdle /\ DrawIdle /\ SrvIdle /\ IcIdle /\ RuIdle /\ RnIdle /\ VwIdle /\ DmIdle /\ SxIdle

NextDesign ==
    \/ DsFirstResponse
    \/ DsRetryResponse
    \/ DsCaller

SpecDesign == InitDesign /\ [][NextDesign]_vars

InitMerge == DmInit /\ QaIdle /\ TierIdle /\ PpIdle /\ DrawIdle /\ SrvIdle /\ IcIdle /\ RuIdle /\ RnIdle /\ VwIdle /\ DsIdle /\ SxIdle

NextMerge == DmMerge

SpecMerge == InitMerge /\ [][NextMerge]_vars

\* C1: for every document and every plan (no plan included) the score the
\* scorer returns lies between 0 and 100, however many deductions apply.
C1_ScoreBounds ==
    qresult.done => (0 <= qresult.score /\ qresult.score <= FULL_SCORE)

\* C1 witness: a scored drawing, with a plan, whose deductions exceed 100.
C1_Witness ==
    /\ qresult.done
    /\ qplan.given
    /\ BaseDeduction(qmetrics) + LayoutDeduction(qmetrics)
         + IntentDeduction(qresult.intent) > FULL_SCORE
    /\ qresult.score = 0

C2_TierIdempotent == tpasses >= 1 => tdoc = tonce

\* C2 witness: the tier applied twice to a document that the first application
\* changed in each of its four rules' domains.
C2_Witness ==
    /\ tpasses = 2
    /\ \E d \in TierDocs :
         /\ remove_iso_hidden(d).result > 0
         /\ normalize_strokes(d).result > 0
         /\ rewrap_notes(d).result > Len(d.notes)
         /\ round_coordinates(d).result > 0
         /\ tonce = MandatoryTier(d)

\* Position of rule r in the sequence of begun rules, 0 when not begun
StartedAt(r) ==
    IF \E i \in 1..Len(ppStarted) : ppStarted[i] = r
    THEN CHOOSE i \in 1..Len(ppStarted) : ppStarted[i] = r
    ELSE 0

\* Rule a had returned or raised when rule b was entered
FinishedBefore(a, b) ==
    /\ StartedAt(a) > 0
    /\ StartedAt(a) < StartedAt(b)
    /\ StartedAt(a) <= Len(ppFinished)

\* One rule at a time: the rules that ended are the rules begun, in the
\* same order, but for the one being executed
OneAtATime ==
    /\ Len(ppStarted) = Len(ppFinished) + (IF ppRunning = 0 THEN 0 ELSE 1)
    /\ \A i \in 1..Len(ppFinished) : ppFinished[i] = ppStarted[i]

C5_ParseFailureKeepsFile ==
    ~ppOrig["in.svg"].wellFormed /\ ppPc # "idle" =>
        /\ ppFiles = ppOrig
        /\ ppStarted = <<>>
        /\ ppPc \in {"start", "parse_error"}

\* C5 witness: a run in place, not a dry run, that ended on a parse error.
C5_Witness ==
    /\ ppPc = "parse_error"
    /\ ppArgs.output = ppArgs.input
    /\ ~ppArgs.dry_run
    /\ ppFiles[ppArgs.input] = BrokenFile

PipelineStages == {"qa_before", "postprocess_svg", "qa_after"}

\* Status of the stage of that name run on SVG k, "" when there is none
StageStatus(name, k) ==
    IF \E i \in 1..Len(runLog.stages) :
          runLog.stages[i].name = name /\ runLog.stages[i].svg = k
    THEN runLog.stages[CHOOSE i \in 1..Len(runLog.stages) :
            runLog.stages[i].name = name /\ runLog.stages[i].svg = k].status
    ELSE ""

\* C6: fcad draw never has two pipeline stages (scoring before, repair,
\* scoring after) running on the same SVG at once: whenever a pipeline stage
\* has been started on an SVG, every stage started on it earlier has ended.
C6_OneStageAtATime ==
    \A i, j \in 1..Len(runLog.stages) :
        /\ i < j
        /\ runLog.stages[i].name \in PipelineStages
        /\ runLog.stages[j].name \in PipelineStages
        /\ runLog.stages[i].svg = runLog.stages[j].svg
        => runLog.stages[i].status # "running"

\* C6 witness: the after-scoring is running on an SVG on which the
\* before-scoring and the repair have both run and ended.
C6_Witness ==
    \E k \in 1..MaxSvgs :
        /\ StageStatus("qa_before", k) = "ok"
        /\ StageStatus("postprocess_svg", k) = "ok"
        /\ StageStatus("qa_after", k) = "running"

HasFloor(args, n) ==
    \E i \in 1..(Len(args) - 1) : args[i] = Flag("fail-under") /\ args[i + 1] = Num(n)

\* C9: when fcad draw is invoked with --fail-under N and the post-repair
\* score of a drawing is below N, the command ends with a non-zero exit
\* status.
C9_FailUnderFails ==
    /\ drawPc = "exited"
    /\ HasFloor(rawArgs, FLOOR)
    /\ \E k \in 1..MaxSvgs : scored[k].after # NA /\ scored[k].after[1] < FLOOR
    => exitCode # 0

\* The two plans differ in the value_mm of the first dim_intent with that
\* id, and in nothing else
OnlyValueOf(before, after, dimId) ==
    LET i == FindIntent(before, dimId)
    IN  /\ i > 0
        /\ after = [before EXCEPT !.dim_intents[i].value_mm = after.dim_intents[i].value_mm]

\* C7: once the plan of a drawing session has been created and persisted,
\* its content changes only through update_dimension, and each patch changes
\* the value of exactly one dim_intent and nothing else.  Stated on the last
\* write to a plan file: when it changed the content of a persisted plan that
\* was the plan of a session (of a connection other than the one whose own
\* draw creates its plan anew), it was a patch and it changed one value only.
C7_PlanChangesOnlyByPatch ==
    LET others == lastWrite.sessions \
                    (IF lastWrite.kind = "save_plan" THEN {lastWrite.conn} ELSE {})
    IN  /\ lastWrite.kind # "none"
        /\ lastWrite.before # NA
        /\ others # {}
        /\ lastWrite.after # lastWrite.before
        => /\ lastWrite.kind = "patch"
           /\ OnlyValueOf(lastWrite.before[1], lastWrite.after[1], lastWrite.dim_id)

\* Whether two entries of the plan's dim_intents have this id
IdRepeated(plan, id) ==
    \E i, j \in 1..Len(plan.dim_intents) :
        i < j /\ plan.dim_intents[i].id = id /\ plan.dim_intents[j].id = id

PlanIds(plan) == {plan.dim_intents[i].id : i \in 1..Len(plan.dim_intents)}

ErrorsOf(result, check) ==
    {i \in 1..Len(result.errors) : result.errors[i].check = check}

\* C11: the validator reports an ERROR naming the id, and valid = false, for
\* every plan in which two dim_intents have the same id, and reports no
\* duplicate-id error for a plan whose ids are all distinct.
C11_DuplicateIdIsError ==
    icPc = "validated" =>
        /\ \A id \in PlanIds(icPlan) :
              IdRepeated(icPlan, id)
                <=> \E i \in ErrorsOf(icResult, "V10") : icResult.errors[i].ref = id
        /\ (\E id \in PlanIds(icPlan) : IdRepeated(icPlan, id)) => ~icResult.valid
        /\ \A i \in ErrorsOf(icResult, "V10") : icResult.errors[i].ref \in PlanIds(icPlan)

\* A plan with OD, THK, OD and nothing else wrong is invalid by V10 alone
C11_Witness ==
    /\ icPc = "validated"
    /\ Len(icPlan.dim_intents) = 3
    /\ icPlan.dim_intents[1].id = "OD"
    /\ icPlan.dim_intents[2].id = "THK"
    /\ icPlan.dim_intents[3].id = "OD"
    /\ ~icResult.valid
    /\ ErrorsOf(icResult, "V10") = 1..Len(icResult.errors)

\* The plan in hand is one the compiler produced
Compiled == icPc \in {"plan", "validated"} /\ icPartType # ""

CallerViews(id) ==
    {icConfig.dim_intents[i].view :
        i \in {j \in 1..Len(icConfig.dim_intents) :
                  icConfig.dim_intents[j].id = id /\ icConfig.dim_intents[j].view # ""}}

CallerPriorities(id) ==
    {icConfig.dim_intents[i].priority :
        i \in {j \in 1..Len(icConfig.dim_intents) :
                  icConfig.dim_intents[j].id = id /\ icConfig.dim_intents[j].priority # 0}}

Cylinders(config) ==
    Cardinality({i \in 1..Len(config.shapes) : config.shapes[i].type = "cylinder"})

HasBox(config) == \E i \in 1..Len(config.shapes) : config.shapes[i].type = "box"

HasThinBox(config) ==
    \E i \in 1..Len(config.shapes) :
        config.shapes[i].type = "box" /\ config.shapes[i].thickness < THIN_MM

HasHole(config) ==
    "hole" \in config.operations \/ "circular_pattern" \in config.operations

FirstMatch(config) ==
    IF config.assembly # "absent" THEN "assembly"
    ELSE IF Cylinders(config) > 0 /\ HasHole(config) /\ Cylinders(config) < 3
         THEN "flange"
    ELSE IF Cylinders(config) >= 3 THEN "shaft"
    ELSE IF HasBox(config) /\ HasHole(config) /\ HasThinBox(config) THEN "bracket"
    ELSE IF HasBox(config) /\ HasHole(config) /\ "cut" \in config.operations
         THEN "housing"
    ELSE "generic"

Classified == icPc = "classified" /\ icConfig.part_type = ""

\* C19: classification returns the family of the lowest-numbered rule whose
\* condition holds; a description with a sub-assembly marker is "assembly"
\* whatever its shapes and operations are.
C19_FirstMatch == Classified => icPartType = FirstMatch(icConfig)

\* What holds of the classifier: the same, except that a thick box with a
\* hole is a housing without any cavity, and that an assembly section with
\* nothing in it does not count as a marker.
C19_FirstMatchOfCode ==
    Classified =>
        icPartType =
            IF icConfig.assembly = "empty"
            THEN FirstMatch([icConfig EXCEPT !.assembly = "absent",
                                             !.operations = @ \cup
                                                IF HasHole(icConfig) THEN {"cut"} ELSE {}])
            ELSE FirstMatch([icConfig EXCEPT !.operations = @ \cup
                                IF HasHole(icConfig) THEN {"cut"} ELSE {}])

\* C15: every repair rule, rules 7 and 8 included, is idempotent: applied to
\* its own output with the same plan it adds, removes and changes nothing.
C15_RuleIdempotent ==
    Len(ruTrees) = 3 => ruTrees[3] = ruTrees[2]

\* What holds: the rules that take no plan are idempotent
C15_PlanFreeRulesIdempotent ==
    Len(ruTrees) = 3 /\ ruRule \in 1..6 => ruTrees[3] = ruTrees[2]

\* The circles of the front view, those of the expected bolt hole diameter,
\* and those whose radius is like that of circle i
FrontCircles(tree) ==
    {i \in 1..Len(tree.circles) :
        Contains(cell_bbox("front"), tree.circles[i].cx, tree.circles[i].cy)}

NearDiameter(tree, dia) ==
    {i \in FrontCircles(tree) :
        Abs(2 * tree.circles[i].r - dia) * 100 <= BOLT_TOL_PCT * dia}

LikeRadius(tree, i) ==
    {j \in FrontCircles(tree) :
        Abs(tree.circles[j].r - tree.circles[i].r) * 100
            <= GROUP_TOL_PCT * tree.circles[i].r}

\* Fewer than three circles fit the diameter hint, and no three circles of
\* the front view share a radius
FewCandidates(tree, plan) ==
    /\ Cardinality(NearDiameter(tree, IntentValue(plan, "BOLT_DIA"))) < 3
    /\ \A i \in FrontCircles(tree) : Cardinality(LikeRadius(tree, i)) < 3

\* C16: when rule 7 finds fewer than three candidate circles, none included,
\* it returns the no-op result and leaves the document as it was.
C16_FewCandidatesNoOp ==
    ruRule = 7 /\ Len(ruTrees) >= 2 /\ FewCandidates(ruTrees[1], ruPlan)
        => ruTrees[2] = ruTrees[1] /\ ruCounts[1] = 0

\* Two holes of the right diameter in the front view, two more in the top
\* view, a plan with PCD and BOLT_DIA: nothing is drawn
C16_Witness ==
    /\ ruRule = 7
    /\ Len(ruTrees) >= 2
    /\ IntentValue(ruPlan, "PCD") > 0
    /\ IntentValue(ruPlan, "BOLT_DIA") > 0
    /\ Cardinality(NearDiameter(ruTrees[1], IntentValue(ruPlan, "BOLT_DIA"))) = 2
    /\ Len(ruTrees[1].circles) = 4
    /\ ruTrees[2] = ruTrees[1]
    /\ ruCounts[1] = 0

\* The notes rule 8 wrote
BoltNotes(tree) == {i \in 1..Len(tree.notes) : tree.notes[i].bolt # <<>>}

\* C17: rule 8 appends its note only where the insertion point, one line
\* below the last note, does not cross into the title block; otherwise the
\* notes stay as they are. No note of rule 8 lies in the title block.
C17_NoteKeepsOffTitleBlock ==
    ruRule = 8 /\ Len(ruTrees) >= 2 =>
        LET before == ruTrees[1].notes
            after == ruTrees[2].notes
        IN  /\ \A i \in BoltNotes(ruTrees[2]) : after[i].y <= TITLEBLOCK_Y
            /\ \/ after = before
               \/ /\ Len(after) = Len(before) + 1
                  /\ SubSeq(after, 1, Len(before)) = before
                  /\ after[Len(after)].y = before[Len(before)].y + LINE_H
            /\ (before # <<>> /\ before[Len(before)].y + LINE_H > TITLEBLOCK_Y)
                  => after = before /\ ruCounts[1] = 0

\* Notes that end 1 mm above the title block and a plan with the three
\* intents: the note is skipped
C17_Witness ==
    /\ ruRule = 8
    /\ Len(ruTrees) >= 2
    /\ IntentValue(ruPlan, "BOLT_COUNT") > 0
    /\ IntentValue(ruPlan, "BOLT_DIA") > 0
    /\ IntentValue(ruPlan, "PCD") > 0
    /\ ruTrees[1].notes # <<>>
    /\ ruTrees[1].notes[Len(ruTrees[1].notes)].y + LINE_H = TITLEBLOCK_Y + 1
    /\ ruTrees[2] = ruTrees[1]
    /\ ruCounts[1] = 0

\* The run wrote the repair report of SVG k: the post-processor's report with
\* the plan metadata, or the report with qa_diff merged into it
WrittenByRun(k) == reports[k].exists /\ (reports[k].plan # NA \/ reports[k].qa_diff # NA)

\* C18: after a draw run every repair report the run persisted carries a plan
\* sub-object: used = true and the family template when a plan was compiled,
\* used = false when there was no plan.
C18_EveryReportHasPlan ==
    drawPc = "exited" =>
        \A k \in 1..MaxSvgs :
            WrittenByRun(k) =>
                /\ reports[k].plan # NA
                /\ reports[k].plan[1].used = hasPlan
                /\ hasPlan => reports[k].plan[1].template = "part_type"

\* What holds: the report of an SVG whose post-processing ended ok carries
\* the plan sub-object of this run
C18_RepairedReportHasPlan ==
    \A k \in 1..MaxSvgs :
        StageStatus("postprocess_svg", k) = "ok"
            => reports[k].exists /\ reports[k].plan = Some(PlanMeta)

\* The timeout of the call: opts.timeout, 120 s by default
TimeoutOf == IF rnOpts = NA THEN TIMEOUT_MS ELSE rnOpts[1]

\* Once the timeout has fired: SIGTERM was sent when it elapsed, SIGKILL is
\* sent 5 s later and only to a child still alive then, and the promise is
\* not resolved; before it has fired no signal is sent
TimeoutHandled ==
    /\ ~rnTimeoutError => rnKills = <<>>
    /\ (rnNow > TimeoutOf /\ rnTimer.state # "cleared") => rnTimeoutError
    /\ rnTimeoutError =>
          /\ rnNow >= TimeoutOf
          /\ rnPromise.state # "resolved"
          /\ rnPromise.state = "rejected" => rnPromise.with = "timeout"
          /\ Len(rnKills) \in {1, 2}
          /\ rnKills[1] = [sig |-> "SIGTERM", at |-> TimeoutOf]
          /\ Len(rnKills) = 2 =>
                /\ rnKills[2] = [sig |-> "SIGKILL", at |-> TimeoutOf + KILL_DELAY_MS]
                /\ rnHard.state # "armed"
          /\ (rnHard.state = "fired" /\ Alive(rnProc)) => Len(rnKills) = 2

\* C20: when the child has not exited as the timeout (120 s by default)
\* elapses, runScript sends it SIGTERM, and SIGKILL 5 s later if it is still
\* alive; the call is then rejected with the timeout error and is never
\* resolved with a result.
C20_TimeoutRejects ==
    /\ []TimeoutHandled
    /\ rnTimeoutError ~> (rnPromise = Promise("rejected", "timeout"))

\* A child that handles SIGTERM and runs on: killed at 125 s, call rejected
C20_Witness ==
    /\ rnOpts = NA
    /\ rnProc.stubborn
    /\ rnProc.signalCode = "SIGKILL"
    /\ rnKills = <<[sig |-> "SIGTERM", at |-> 120000], [sig |-> "SIGKILL", at |-> 125000]>>
    /\ rnPromise = Promise("rejected", "timeout")

\* The script reported an error: an object with success false on stdout and
\* a non-zero exit status
ReportedError(p) ==
    p.stdout \in {"json_fail", "braces_json_fail"} /\ p.exitCode = Some(1)

\* C21: whenever the script reports an error (success = false on a non-zero
\* exit), runScript rejects with an error carrying the script's own error
\* message, and never resolves.
C21_ScriptErrorRejects ==
    rnProc.state = "closed" /\ ReportedError(rnProc)
        => rnPromise = Promise("rejected", "script")

\* C21 as it holds: the call is rejected and never resolved; the rejection
\* carries the script's message when the timeout has not fired and the
\* object is all that stdout holds from its first brace on.
C21_ScriptErrorRejectsUnlessTimeout ==
    rnProc.state = "closed" /\ ReportedError(rnProc) =>
        /\ rnPromise.state = "rejected"
        /\ rnPromise.with =
              IF rnTimeoutError THEN "timeout"
              ELSE IF rnProc.stdout = "json_fail" THEN "script"
              ELSE "exit"

\* The script printed its error and exited 1 before the timeout
C21_Witness ==
    /\ rnProc.state = "closed"
    /\ rnProc.stdout = "json_fail"
    /\ rnProc.exitCode = Some(1)
    /\ ~rnTimeoutError
    /\ rnPromise = Promise("rejected", "script")

\* C22: after a dimension edit applied in the viewer, undo (Ctrl+Z) sends an
\* update restoring the value from before the edit, and a following redo
\* (Ctrl+Y) sends the edited value again.
C22_UndoRedoRestore ==
    \A i \in 1..Len(vwRecent) :
        (/\ vwRecent[i].what = "applied"
         /\ i + 1 <= Len(vwRecent)
         /\ vwRecent[i + 1].what = "undo")
        => /\ vwRecent[i + 1].vals = <<vwRecent[i].vals[1]>>
           /\ (i + 2 <= Len(vwRecent) /\ vwRecent[i + 2].what = "redo")
                 => vwRecent[i + 2].vals = <<vwRecent[i].vals[2]>>

\* C23: the viewer's undo/redo edit history never holds more than 20
\* entries.
C23_HistoryAtMostTwenty == Len(vwHistory) <= 20

StructurallyValid(t) ==
    /\ t.parses
    /\ t.name
    /\ \E i \in 1..Len(t.parts) : t.parts[i].shapes > 0

\* C25: whenever the design operation returns a TOML (non-null), that TOML
\* passes structural validation; otherwise the result carries no TOML and
\* the caller reports failure.
C25_ReturnedTomlIsValid ==
    /\ (dsResult # NA /\ dsResult[1].toml # NA)
          => StructurallyValid(dsResult[1].toml[1])
    /\ (dsPc = "done" /\ dsResult # NA /\ dsResult[1].toml = NA)
          => dsOutcome = "failed"

\* The key paths of a value: the paths of keys that lead to a value in it
RECURSIVE KeyPaths(_)
KeyPaths(v) ==
    IF v.kind # "object" THEN {}
    ELSE UNION {{<<k>>} \cup {<<k>> \o q : q \in KeyPaths(v.fields[k])} :
                  k \in DOMAIN v.fields}

\* The value at a key path
RECURSIVE At(_, _)
At(v, path) == IF path = <<>> THEN v ELSE At(v.fields[Head(path)], Tail(path))

\* The key paths of the override that end in a number, null or an array
LeafPaths(v) == {p \in KeyPaths(v) : At(v, p).kind # "object"}

\* The key paths only the base has: not a key path of the override, and not
\* under a key the override gives a number, null or an array
OnlyInBase(base, override) ==
    {p \in KeyPaths(base) :
        /\ p \notin KeyPaths(override)
        /\ \A n \in 1..(Len(p) - 1) : SubSeq(p, 1, n) \notin LeafPaths(override)}

PipelineOn(c) == drawTask[c].pc # "idle" \/ buildTask[c].pc # "idle"

\* The step handles a message with one of these actions on connection c
Receives(c, actions) ==
    /\ requests' = requests + 1
    /\ lastReq'.conn = c
    /\ lastReq'.action \in actions

C28_WriteNeverDuringPipeline ==
    \A c \in Conns : updTask[c].pc = "write" => ~PipelineOn(c)

\* C29: whenever no build or draw handler is executing on a connection its
\* _building flag is false.
C29_FlagClearedWhenIdle ==
    \A c \in Conns : ~PipelineOn(c) => ~building[c]

\* C29 witness: draws and builds on a connection have ended, one draw with
\* an error, and the flag is clear
C29_Witness ==
    \E c \in Conns :
        /\ lastDraw[c] = "error"
        /\ lastMsg[c] \in {"error", "complete"}
        /\ ~PipelineOn(c)
        /\ ~building[c]
        /\ requests >= 2

\* C30: an update_dimension request is accepted only if the most recent
\* draw on that connection delivered a drawing_result with a plan; in every
\* other state it is rejected with 'No active plan. Generate a drawing
\* first.' and no file is changed.
C30_AcceptedOnlyAfterDrawingResult ==
    [][\A c \in Conns :
          (Receives(c, {"update_dimension"}) /\ lastDraw[c] # "result_with_plan") =>
              /\ lastMsg'[c] = "No active plan. Generate a drawing first."
              /\ updTask' = updTask
              /\ planFiles' = planFiles
              /\ bakFiles' = bakFiles]_vars

\* C30 as it holds: a request is accepted only when no build or draw runs
\* on the connection and the session has a plan file, saved by a draw on
\* that connection; without a running pipeline and without a session plan
\* the answer is 'No active plan. Generate a drawing first.' (or that dim_id
\* and value_mm are required); a request that is not accepted changes no
\* file.
C30_AcceptedOnlyWithSessionPlan ==
    [][\A c \in Conns :
          Receives(c, {"update_dimension"}) =>
              /\ updTask'[c].pc = "read" =>
                    /\ ~building[c]
                    /\ lastPlanPath[c] \in PlanPaths
                    /\ planFiles[lastPlanPath[c]] # NA
                    /\ lastDraw[c] \in {"result_with_plan", "error"}
              /\ (~building[c] /\ lastPlanPath[c] = NoPath) =>
                    lastMsg'[c] \in {"No active plan. Generate a drawing first.",
                                     "dim_id and value_mm are required"}
              /\ updTask'[c].pc # "read" => updTask' = updTask
              /\ planFiles' = planFiles
              /\ bakFiles' = bakFiles]_vars

\* C30 witness: an update accepted after a drawing_result with a plan
C30_Witness ==
    /\ lastReq.action = "update_dimension"
    /\ updTask[lastReq.conn].pc = "read"
    /\ lastDraw[lastReq.conn] = "result_with_plan"

\* The plan files the server is reading or writing, or wrote last
PlanFilesTouched ==
    {lastWrite.path : k \in {kind \in {lastWrite.kind} : kind # "none"}}
    \cup {updTask[c].path : c \in {d \in Conns : updTask[d].pc # "idle"}}
    \cup {drawTask[c].forced : c \in {d \in Conns : drawTask[d].pc = "load_plan"}}

\* The path, resolved, is a file under the output directory whose name ends
\* in _plan.toml
InOutputAsPlan(path) ==
    LET segs == resolvePath(Segments(path))
    IN  /\ Len(segs) >= 2
        /\ segs[1] = "output"
        /\ segs[Len(segs)] \in PlanFileNames

\* C31: every plan file the server reads or writes on behalf of a client
\* lies inside the server's output directory and has a name ending in
\* _plan.toml, whatever model name or plan_path the client sends.
C31_PlanFilesStayInOutput ==
    \A path \in PlanFilesTouched : InOutputAsPlan(path)

\* The handler sent one terminal message, complete or error, and no other
ExactlyOneTerminal(log) ==
    /\ Len(log.terminals) = 1
    /\ log.terminals[1] \in {"complete", "error"}

\* A handler of a build or draw request that has returned has sent one
\* terminal message and only one, and a handler still waiting has sent none
NeverTwoTerminals ==
    /\ \A c \in Conns :
          pipelineLog[c].action \in {"build", "draw"} =>
             IF pipelineLog[c].done THEN ExactlyOneTerminal(pipelineLog[c])
             ELSE pipelineLog[c].terminals = <<>>
    /\ rejectLog.log.action \in {"build", "draw"} => ExactlyOneTerminal(rejectLog.log)

\* C32: every build or draw request is answered by exactly one terminal
\* message, complete or error: never two (no handler sends a second one),
\* and never none (a handler that waits for its script returns in the end,
\* having sent one)
C32_OneTerminalMessagePerRequest ==
    /\ []NeverTwoTerminals
    /\ \A c \in Conns :
          (pipelineLog[c].action \in {"build", "draw"} /\ ~pipelineLog[c].done)
             ~> (pipelineLog[c].done /\ ExactlyOneTerminal(pipelineLog[c]))

\* A build has ended with complete on a connection where a draw request
\* sent while it ran was refused with an error, and a draw has ended with
\* an error on another connection
C32_Witness ==
    \E c, d \in Conns :
        /\ c # d
        /\ pipelineLog[c] = HandlerLog("build", <<"complete">>, TRUE)
        /\ rejectLog = [conn |-> c, log |-> HandlerLog("draw", <<"error">>, TRUE)]
        /\ lastMsg[c] = "complete"
        /\ pipelineLog[d] = HandlerLog("draw", <<"error">>, TRUE)

\* The draw has passed argument checking and cmdDraw has ended
DrawEnded == drawPc = "exited" /\ ParseArgs(rawArgs).positional # <<>>

\* A run log with status success or failed and no stage still running
FinalLog(log) ==
    /\ log.status \in {"success", "failed"}
    /\ \A i \in 1..Len(log.stages) : log.stages[i].status # "running"

====
